---------------------------- MODULE Spec2Model ----------------------------
(***************************************************************************)
(* A model of the SEC-Client EDGAR wrapper (src/client).                   *)
(*                                                                         *)
(*   SpecResolve  the identifier resolver (_utils.validate_and_return_cik  *)
(*                over the mapping built by get_ticker_cik_name_mapping)   *)
(*   SpecAgg      the pagination walk aggregate_forms_to_download          *)
(*   SpecDownload download_forms_by_company: argument validation, the walk *)
(*                and the save loop of fetch_and_save_filings              *)
(*   SpecLimiter  concurrent callers of BaseClient._rate_limited_get under *)
(*                the pyrate_limiter decorator                             *)
(*   SpecTransport one call of _rate_limited_get with its retries, and the *)
(*                requests the operations of the client put on the wire    *)
(*   SpecConstruct EdgarClient.__init__                                    *)
(*   SpecSession  several calls of _rate_limited_get on one session        *)
(*   SpecBatch    download_forms_for_companies, download_facts_for_companies*)
(*   SpecParse    parse_all_facts_in_latest_zip and its pool of workers    *)
(*   SpecToDownload get_to_download: the URIs and names of one filing      *)
(*   SpecNormalize the fact tables of parse_facts_json and _parse_open_json *)
(*   SpecSubmissions get_submissions_by_company and its pagination         *)
(*                                                                         *)
(* Python strings whose characters matter (identifiers, tickers, accession *)
(* numbers, document names) are sequences of one-character strings.        *)
(***************************************************************************)
EXTENDS Integers, Sequences, FiniteSets, TLC

VARIABLES
    \* ---- EdgarClient fields
    ticker_to_cik_mapping,      \* self.ticker_to_cik_mapping (ordered dict)
    cik_to_ticker_mapping,      \* self.cik_to_ticker_mapping (ordered dict)
    cik_to_name,                \* self.cik_to_name (ordered dict)
    \* ---- resolver calls
    resolved,                   \* the last validate_and_return_cik call, <<[arg, out]>>; <<>> before any
    form_to_download,           \* the last get_to_download call, <<[cik, acc_num, doc, out]>>
    fact_tables,                \* the last normalisation of a fact document, <<[doc, ...]>>
    submissions_frame,          \* get_submissions_by_company: its arguments and locals, <<[...]>>
    feed_loop,                  \* a feed subscription: its arguments, locals and deliveries, <<[...]>>
    \* ---- the remote archive and the network
    archive,                    \* what the archive serves for the company: [recent, files, pages]
    requested,                  \* the URLs passed to _rate_limited_get, in order
    \* ---- aggregate_forms_to_download (locals of the running call)
    pc,                         \* where the running call is
    caller,                     \* who called aggregate_forms_to_download
    meta,                       \* download_metadata: FormsDownloadMetadata
    filings_to_download,
    fetched_count,
    submissions_uri,
    additional_submissions,     \* <<>> is None, <<q>> the deque q
    filings_json,               \* the page being zipped
    zip_pos,                    \* rows the zip iterator has yielded from filings_json
    outcome,                    \* result of the finished call: <<>> while running
    \* ---- download_forms_by_company / fetch_and_save_filings
    dl_args,                    \* <<arguments of download_forms_by_company>>; <<>> before the call
    td_pos,                     \* position of the for loop in to_download (= filings_to_download)
    successfully_downloaded,
    written,                    \* the paths written under the download folder
    \* ---- the module-level limiter and the callers of _rate_limited_get
    now,                        \* the clock, in ticks
    bucket_group,               \* limiter.bucket_group: identity -> timestamps of its bucket
    caller_pc,                  \* where each caller of _rate_limited_get is
    calls_made,                 \* calls of _rate_limited_get so far
    let_through,                \* the times at which the wrapper let a caller into the body
    dispatched,                 \* the times at which session.get sent a request, in order
    \* ---- EdgarClient.__init__ / BaseClient.__init__
    init_pc,                    \* where the constructor is
    init_args,                  \* <<[company_name, email_address]>>; <<>> before the call
    user_agent,                 \* <<self.user_agent>>; <<>> before it is set
    session_headers,            \* <<self._session.headers>>; <<>> while there is no session
    directory,                  \* <<the directory the constructor was answered with>>
    \* ---- one call of _rate_limited_get and the requests put on the wire
    tr_pc,                      \* where the call is
    get_args,                   \* <<[op, url, headers, host]>> of the call; <<>> before it
    session_headers_copy,       \* the headers handed to session.get
    retries_total,              \* Retry.total left for the request
    attempt_log,                \* what each attempt of the request met, in order
    wire,                       \* every request sent: which operation, and through what
    get_outcome,                \* <<the response returned or the exception raised>>
    \* ---- download_forms_for_companies / download_facts_for_companies
    batch_pc,                   \* where the batch call is
    batch_args,                 \* <<the arguments of the batch call and what each company meets>>
    batch_pos,                  \* position of the for loop in tickers_or_ciks
    batch_saved,                \* forms_saved / ticker_facts_saved
    batch_skipped,              \* forms_skipped / ticker_facts_skipped
    facts_files,                \* the tickers whose facts file of today exists
    \* ---- parse_all_facts_in_latest_zip and its pool of _parse_open_json workers
    latest_zip,                 \* <<the latest facts zip: its name and its members>>; <<>> if none
    pkl_files,                  \* the tickers whose {ticker}_facts-{date}.pkl exists
    parse_run,                  \* runs of parse_all_facts_in_latest_zip that got their pool
    cpu_count,                  \* multiprocessing.cpu_count() of the host
    pool_size,                  \* workers of the pool of the last call; 0 if Pool raised
    task_pc,                    \* where the worker of each member is, by place in namelist()
    parse_log                   \* what each worker ended in: <<run, member, result>>

clientVars  == <<ticker_to_cik_mapping, cik_to_ticker_mapping, cik_to_name>>
resolveVars == <<resolved, form_to_download, fact_tables, submissions_frame, feed_loop>>
netVars     == <<archive, requested>>
aggVars     == <<pc, caller, meta, filings_to_download, fetched_count, submissions_uri,
                 additional_submissions, filings_json, zip_pos, outcome>>
dlVars      == <<dl_args, td_pos, successfully_downloaded, written>>
limVars     == <<now, bucket_group, caller_pc, calls_made, let_through, dispatched>>
sessVars    == <<init_pc, init_args, user_agent, session_headers, directory>>
trVars      == <<tr_pc, get_args, session_headers_copy, retries_total, attempt_log, wire,
                 get_outcome>>
\* the state of the parts a walk, a download or the limiter leaves alone
batchVars   == <<batch_pc, batch_args, batch_pos, batch_saved, batch_skipped, facts_files>>
parseVars   == <<latest_zip, pkl_files, parse_run, cpu_count, pool_size, task_pc, parse_log>>
serviceVars == <<sessVars, trVars, batchVars, parseVars>>

-----------------------------------------------------------------------------
(***************************************************************************)
(* Python str operations, over sequences of characters.                    *)
(***************************************************************************)
Digits == {"0", "1", "2", "3", "4", "5", "6", "7", "8", "9"}

\* "".join / concatenation of n copies of c
Repeat(c, n) == [i \in 1..n |-> c]

\* str.upper(), on the letters the model's inputs use
UpperChar(c) ==
    CASE c = "a" -> "A"
      [] c = "b" -> "B"
      [] c = "k" -> "K"
      [] OTHER   -> c

Upper(s) == [i \in 1..Len(s) |-> UpperChar(s[i])]

\* str.strip(): leading and trailing whitespace removed
RECURSIVE LStrip(_, _)
LStrip(s, chars) ==
    IF s # <<>> /\ s[1] \in chars THEN LStrip(Tail(s), chars) ELSE s

RECURSIVE RStrip(_, _)
RStrip(s, chars) ==
    IF s # <<>> /\ s[Len(s)] \in chars THEN RStrip(SubSeq(s, 1, Len(s) - 1), chars) ELSE s

StripChars(s, chars) == RStrip(LStrip(s, chars), chars)

Strip(s) == StripChars(s, {" "})

\* str.zfill(width): zeros inserted after a leading sign
Zfill(s, width) ==
    IF Len(s) >= width THEN s
    ELSE IF s # <<>> /\ s[1] \in {"+", "-"}
         THEN <<s[1]>> \o Repeat("0", width - Len(s)) \o Tail(s)
         ELSE Repeat("0", width - Len(s)) \o s

\* int(s) does not raise: an optional sign, then digits with single
\* underscores between them (PEP 515); s is already stripped
IntParses(s) ==
    LET body == IF s # <<>> /\ s[1] \in {"+", "-"} THEN Tail(s) ELSE s
    IN  /\ body # <<>>
        /\ \A i \in 1..Len(body) : body[i] \in Digits \cup {"_"}
        /\ body[1] # "_"
        /\ body[Len(body)] # "_"
        /\ \A i \in 1..(Len(body) - 1) : ~(body[i] = "_" /\ body[i + 1] = "_")

\* str(n) for a non-negative int
DigitChar(d) ==
    CASE d = 0 -> "0" [] d = 1 -> "1" [] d = 2 -> "2" [] d = 3 -> "3" [] d = 4 -> "4"
      [] d = 5 -> "5" [] d = 6 -> "6" [] d = 7 -> "7" [] d = 8 -> "8" [] d = 9 -> "9"

RECURSIVE IntToStr(_)
IntToStr(n) ==
    IF n < 10 THEN <<DigitChar(n)>> ELSE IntToStr(n \div 10) \o <<DigitChar(n % 10)>>

-----------------------------------------------------------------------------
(***************************************************************************)
(* Python dicts keep insertion order: a dict is a sequence of <<key,       *)
(* value>> pairs with distinct keys.                                       *)
(***************************************************************************)
DictKeys(d)   == {d[i][1] : i \in 1..Len(d)}
DictValues(d) == {d[i][2] : i \in 1..Len(d)}

\* d.get(k) for a key of d (d.get(k) is None exactly when k is no key of d)
DictGet(d, k) ==
    LET i == CHOOSE j \in 1..Len(d) : d[j][1] = k IN d[i][2]

\* d[k] = v: an existing key keeps its place
DictSet(d, k, v) ==
    IF k \in DictKeys(d)
    THEN [i \in 1..Len(d) |-> IF d[i][1] = k THEN <<k, v>> ELSE d[i]]
    ELSE Append(d, <<k, v>>)

-----------------------------------------------------------------------------
(***************************************************************************)
(* _utils.py                                                               *)
(***************************************************************************)
CIK_LENGTH == 10

Ok(v)       == [ok |-> TRUE, value |-> v]
Raise(e, m) == [ok |-> FALSE, exc |-> e, msg |-> m]

is_cik(cik) == IntParses(cik) /\ 1 <= Len(cik) /\ Len(cik) <= 10

\* the mutants of validate_and_return_cik used by the resolver claims
validate_and_return_cik_no_upper(ticker_or_cik, mapping) ==
    LET t == Strip(ticker_or_cik)
    IN  IF t = <<>> THEN Raise("ValueError", "blank")
        ELSE IF is_cik(t)
        THEN IF Len(t) > CIK_LENGTH THEN Raise("ValueError", "too long")
             ELSE LET cik == Zfill(t, CIK_LENGTH)
                  IN  IF cik \notin DictValues(mapping)
                      THEN Raise("ValueError", "cik not in mapping")
                      ELSE Ok(cik)
        ELSE IF t \notin DictKeys(mapping)
             THEN Raise("ValueError", "ticker invalid")
             ELSE Ok(DictGet(mapping, t))

validate_and_return_cik_no_membership(ticker_or_cik, mapping) ==
    LET t == Upper(Strip(ticker_or_cik))
    IN  IF t = <<>> THEN Raise("ValueError", "blank")
        ELSE IF is_cik(t)
        THEN IF Len(t) > CIK_LENGTH THEN Raise("ValueError", "too long")
             ELSE Ok(Zfill(t, CIK_LENGTH))
        ELSE IF t \notin DictKeys(mapping)
             THEN Raise("ValueError", "ticker invalid")
             ELSE Ok(DictGet(mapping, t))

validate_and_return_cik(ticker_or_cik, mapping) ==
    LET t == Upper(Strip(ticker_or_cik))
    IN  IF t = <<>> THEN Raise("ValueError", "blank")
        ELSE IF is_cik(t)
        THEN IF Len(t) > CIK_LENGTH THEN Raise("ValueError", "too long")
             ELSE LET cik == Zfill(t, CIK_LENGTH)
                  IN  IF cik \notin DictValues(mapping)
                      THEN Raise("ValueError", "cik not in mapping")
                      ELSE Ok(cik)
        ELSE IF t \notin DictKeys(mapping)
             THEN Raise("ValueError", "ticker invalid")
             ELSE Ok(DictGet(mapping, t))

-----------------------------------------------------------------------------
(***************************************************************************)
(* DownloadFormManager.get_ticker_cik_name_mapping, on a directory         *)
(* response [fields, data].                                                *)
(***************************************************************************)
\* list.index(x): the first position of x (1-based here); 0 stands for the
\* ValueError list.index raises when x is absent
Index(list, x) ==
    IF \E i \in 1..Len(list) : list[i] = x
    THEN CHOOSE i \in 1..Len(list) : list[i] = x /\ \A j \in 1..(i - 1) : list[j] # x
    ELSE 0

\* {key(td): val(td) for td in data}, built left to right
RECURSIVE TickerToCik(_, _, _)
TickerToCik(data, ticker_idx, cik_idx) ==
    IF data = <<>> THEN <<>>
    ELSE LET front == SubSeq(data, 1, Len(data) - 1)
             td    == data[Len(data)]
         IN  DictSet(TickerToCik(front, ticker_idx, cik_idx),
                     Upper(td[ticker_idx]), Zfill(IntToStr(td[cik_idx]), CIK_LENGTH))

\* {v: k for k, v in d.items()}
RECURSIVE Inverted(_)
Inverted(d) ==
    IF d = <<>> THEN <<>>
    ELSE LET last == d[Len(d)]
         IN  DictSet(Inverted(SubSeq(d, 1, Len(d) - 1)), last[2], last[1])

get_ticker_cik_name_mapping_lenient(ticker_metadata) ==
    LET fields     == ticker_metadata.fields
        cik_idx    == Index(fields, "cik")
        ticker_idx == Index(fields, "ticker")
    IN  IF 0 \in {cik_idx, ticker_idx}
        THEN Ok([ticker_to_cik |-> <<>>, cik_to_ticker |-> <<>>, cik_to_name |-> <<>>])
        ELSE LET ticker_to_cik == TickerToCik(ticker_metadata.data, ticker_idx, cik_idx)
             IN  Ok([ticker_to_cik |-> ticker_to_cik,
                     cik_to_ticker |-> Inverted(ticker_to_cik),
                     cik_to_name   |-> Inverted(ticker_to_cik)])

get_ticker_cik_name_mapping(ticker_metadata) ==
    LET fields     == ticker_metadata.fields
        ticker_data == ticker_metadata.data
        cik_idx    == Index(fields, "cik")
        ticker_idx == Index(fields, "ticker")
        name_idx   == Index(fields, "name")
    IN  IF 0 \in {cik_idx, ticker_idx, name_idx}
        THEN Raise("ValueError", "not in list")
        ELSE LET ticker_to_cik == TickerToCik(ticker_data, ticker_idx, cik_idx)
             IN  Ok([ticker_to_cik |-> ticker_to_cik,
                     cik_to_ticker |-> Inverted(ticker_to_cik),
                     cik_to_name   |-> Inverted(ticker_to_cik)])

-----------------------------------------------------------------------------
(***************************************************************************)
(* The directory the archive serves at URL_CIK_MAPPING.                    *)
(***************************************************************************)
MaxCompanies == 2

DirectoryFields == <<"cik", "name", "ticker", "exchange">>

\* rows [cik, name, ticker, exchange]; tickers are alphabetic
DirectoryRows ==
    { <<12, <<"N", "1", "2">>, <<"a", "b">>, "X">>,
      <<12, <<"N", "1", "2">>, <<"A">>, "X">>,
      <<10, <<"N", "1", "0">>, <<"b">>, "X">>,
      <<7,  <<"N", "7">>,  <<"B", "a">>, "X">> }

RowLists(n) == UNION {[1..k -> DirectoryRows] : k \in 0..n}

Directories ==
    { [fields |-> DirectoryFields, data |-> rows] :
        rows \in { r \in RowLists(MaxCompanies) :
                     \A i, j \in 1..Len(r) : i # j => r[i] # r[j] } }

\* seq without the places that hold x
Without(seq, x) == SelectSeq(seq, LAMBDA y : y # x)

\* a directory whose field list and rows lack the column of field
Lacking(dir, field) ==
    LET at == Index(dir.fields, field)
        cut(row) == [i \in 1..(Len(row) - 1) |-> IF i < at THEN row[i] ELSE row[i + 1]]
    IN  [fields |-> Without(dir.fields, field),
         data   |-> [i \in 1..Len(dir.data) |-> cut(dir.data[i])]]

\* the columns company_tickers_exchange.json may come without; "" for none
LackingFields == {"", "cik", "ticker", "name", "exchange"}

\* what company_tickers_exchange.json answers: dir, with or without a column
DirectoryAnswer(dir, field) == IF field = "" THEN dir ELSE Lacking(dir, field)

-----------------------------------------------------------------------------
(***************************************************************************)
(* Values of the variables a specification does not use.                   *)
(***************************************************************************)
IdleNet == archive = <<>> /\ requested = <<>>

IdleCalls ==
    /\ form_to_download = <<>>
    /\ fact_tables = <<>>
    /\ submissions_frame = <<>>
    /\ feed_loop = <<>>

IdleAgg ==
    /\ pc = "idle"
    /\ caller = "none"
    /\ meta = <<>>
    /\ filings_to_download = <<>>
    /\ fetched_count = 0
    /\ submissions_uri = <<>>
    /\ additional_submissions = <<>>
    /\ filings_json = <<>>
    /\ zip_pos = 0
    /\ outcome = <<>>

IdleLim ==
    /\ now = 0
    /\ bucket_group = <<>>
    /\ caller_pc = <<>>
    /\ calls_made = 0
    /\ let_through = <<>>
    /\ dispatched = <<>>

IdleSession ==
    /\ init_pc = "none"
    /\ init_args = <<>>
    /\ user_agent = <<>>
    /\ session_headers = <<>>
    /\ directory = <<>>

IdleTransport ==
    /\ tr_pc = "idle"
    /\ get_args = <<>>
    /\ session_headers_copy = <<>>
    /\ retries_total = 0
    /\ attempt_log = <<>>
    /\ wire = <<>>
    /\ get_outcome = <<>>

IdleBatch ==
    /\ batch_pc = "idle"
    /\ batch_args = <<>>
    /\ batch_pos = 0
    /\ batch_saved = <<>>
    /\ batch_skipped = <<>>
    /\ facts_files = {}

IdleParse ==
    /\ latest_zip = <<>>
    /\ pkl_files = {}
    /\ parse_run = 0
    /\ cpu_count = 0
    /\ pool_size = 0
    /\ task_pc = <<>>
    /\ parse_log = {}

IdleService == IdleSession /\ IdleTransport /\ IdleBatch /\ IdleParse

IdleDl ==
    /\ dl_args = <<>>
    /\ td_pos = 0
    /\ successfully_downloaded = 0
    /\ written = {}

-----------------------------------------------------------------------------
(***************************************************************************)
(* SpecResolve: a client whose mappings were loaded from a directory, and  *)
(* calls of validate_and_return_cik on it.                                 *)
(***************************************************************************)
MaxPad       == 1
MaxTickerLen == 2

Letters == {"a", "A", "b", "B"}

Pads == {Repeat(" ", n) : n \in 0..MaxPad}

\* identifiers as a caller may write them: the digits of a number, zero
\* padded to every width up to one more than CIK_LENGTH
NumericCores ==
    { Zfill(IntToStr(n), w) : n \in {7, 10, 12, 5}, w \in 1..(CIK_LENGTH + 1) }

TickerCores == UNION {[1..k -> Letters] : k \in 1..MaxTickerLen}

OddCores == { <<>>, <<"-", "1", "2">>, <<"+", "1", "2">>, <<"1", "_", "2">>, <<"1", " ", "2">> }

ResolveInputs ==
    { l \o core \o r : l \in Pads, r \in Pads,
                       core \in NumericCores \cup TickerCores \cup OddCores }

InitClient(dir) ==
    LET m == get_ticker_cik_name_mapping(dir).value
    IN  /\ ticker_to_cik_mapping = m.ticker_to_cik
        /\ cik_to_ticker_mapping = m.cik_to_ticker
        /\ cik_to_name = m.cik_to_name

InitResolve ==
    /\ \E dir \in Directories : InitClient(dir)
    /\ resolved = <<>>
    /\ IdleCalls
    /\ IdleNet
    /\ IdleAgg
    /\ IdleDl
    /\ IdleService
    /\ IdleLim

Resolve(ticker_or_cik) ==
    /\ resolved = <<>>
    /\ resolved' = <<[arg |-> ticker_or_cik,
                      out |-> validate_and_return_cik(ticker_or_cik, ticker_to_cik_mapping)]>>
    /\ UNCHANGED <<form_to_download, fact_tables, submissions_frame, feed_loop>>
    /\ UNCHANGED <<clientVars, limVars, serviceVars, netVars, aggVars, dlVars>>

NextResolve == \E t \in ResolveInputs : Resolve(t)

vars == <<clientVars, resolveVars, netVars, aggVars, dlVars, limVars, serviceVars>>

SpecResolve == InitResolve /\ [][NextResolve]_vars

-----------------------------------------------------------------------------
(***************************************************************************)
(* Resolver claims (SpecResolve).                                          *)
(***************************************************************************)
AllDigits(s) == s # <<>> /\ \A i \in 1..Len(s) : s[i] \in Digits

\* two digit strings that name the same number
SameNumber(a, b) == LStrip(a, {"0"}) = LStrip(b, {"0"})

LowerChar(c) ==
    CASE c = "A" -> "a"
      [] c = "B" -> "b"
      [] OTHER   -> c

\* the same symbol, letter case apart
SameSymbol(a, b) ==
    Len(a) = Len(b) /\ \A i \in 1..Len(a) : LowerChar(a[i]) = LowerChar(b[i])

\* C7: for every identifier present in the loaded mapping, the identifier
\* written without padding or zero padded (up to 10 digits), and every
\* ticker mapped to it, in any letter case and with surrounding whitespace,
\* resolve to the same 10-digit zero-padded identifier.
C7_ResolveAgrees ==
    \A n \in 1..Len(resolved) :
        LET call == resolved[n]
            core == Strip(call.arg)
        IN  /\ \A cik \in DictValues(ticker_to_cik_mapping) :
                   (AllDigits(core) /\ Len(core) <= CIK_LENGTH /\ SameNumber(core, cik))
                       => call.out = Ok(cik)
            /\ \A j \in 1..Len(ticker_to_cik_mapping) :
                   SameSymbol(core, ticker_to_cik_mapping[j][1])
                       => call.out = Ok(ticker_to_cik_mapping[j][2])
            /\ \A cik \in DictValues(ticker_to_cik_mapping) :
                   Len(cik) = CIK_LENGTH /\ AllDigits(cik)

\* a lower-case, whitespace-padded ticker was resolved to its identifier
C7_Witness ==
    /\ resolved # <<>>
    /\ resolved[1].arg = <<" ", "a", "B", " ">>
    /\ resolved[1].out = Ok(Zfill(<<"1", "2">>, CIK_LENGTH))

\* C8: validate_and_return_cik raises a ValueError (and returns nothing) on
\* blank input, on a numeric identifier of more than 10 digits, on a numeric
\* identifier absent from the mapping and on a symbol that is no key of the
\* mapping; whatever it returns is a value of the mapping.
C8_ResolveRejects ==
    \A n \in 1..Len(resolved) :
        LET call == resolved[n]
            core == Strip(call.arg)
            keys == DictKeys(ticker_to_cik_mapping)
            vals == DictValues(ticker_to_cik_mapping)
        IN  /\ core = <<>> => ~call.out.ok
            /\ (AllDigits(core) /\ Len(core) > CIK_LENGTH) => ~call.out.ok
            /\ (AllDigits(core) /\ Len(core) <= CIK_LENGTH
                  /\ \A cik \in vals : ~SameNumber(core, cik)) => ~call.out.ok
            /\ (~AllDigits(core) /\ \A k \in keys : ~SameSymbol(core, k)) => ~call.out.ok
            /\ call.out.ok => call.out.value \in vals
            /\ ~call.out.ok => call.out.exc = "ValueError"

\* an 11-digit identifier naming a number of the mapping was rejected
C8_Witness ==
    /\ resolved # <<>>
    /\ resolved[1].arg = Zfill(<<"1", "2">>, CIK_LENGTH + 1)
    /\ Zfill(<<"1", "2">>, CIK_LENGTH) \in DictValues(ticker_to_cik_mapping)
    /\ ~resolved[1].out.ok

-----------------------------------------------------------------------------
(***************************************************************************)
(* More str, pathlib and datetime operations.                              *)
(***************************************************************************)
\* s.endswith(suffix)
EndsWith(s, suffix) ==
    Len(s) >= Len(suffix) /\ SubSeq(s, Len(s) - Len(suffix) + 1, Len(s)) = suffix

\* s.replace(old, new): every non-overlapping occurrence, left to right
RECURSIVE Replace(_, _, _)
Replace(s, old, new) ==
    IF Len(s) < Len(old) \/ old = <<>> THEN s
    ELSE IF SubSeq(s, 1, Len(old)) = old
         THEN new \o Replace(SubSeq(s, Len(old) + 1, Len(s)), old, new)
         ELSE <<s[1]>> \o Replace(Tail(s), old, new)

\* the position of the last c in s, 0 if there is none
LastIndexOf(s, c) ==
    IF \E i \in 1..Len(s) : s[i] = c
    THEN CHOOSE i \in 1..Len(s) : s[i] = c /\ \A j \in (i + 1)..Len(s) : s[j] # c
    ELSE 0

\* pathlib.Path(p).suffix: from the last dot of the final component, when
\* that dot is neither its first nor its last character
PathSuffix(path) ==
    LET name == SubSeq(path, LastIndexOf(path, "/") + 1, Len(path))
        dot  == LastIndexOf(name, ".")
    IN  IF dot > 1 /\ dot < Len(name) THEN SubSeq(name, dot, Len(name)) ELSE <<>>

\* A date string "YYYY-MM-DD" is the triple of its three numbers; a
\* datetime.date is its rank in calendar order.
DaysInMonth(y, m) ==
    IF m \in {4, 6, 9, 11} THEN 30
    ELSE IF m = 2
         THEN (IF y % 4 = 0 /\ (y % 100 # 0 \/ y % 400 = 0) THEN 29 ELSE 28)
         ELSE 31

Date(y, m, d) == (y * 12 + (m - 1)) * 31 + (d - 1)

\* dt.strptime(text, DATE_FORMAT_TOKENS).date()
Strptime(text) ==
    IF /\ Len(text) = 3
       /\ text[1] \in 1..9999
       /\ text[2] \in 1..12
       /\ text[3] \in 1..DaysInMonth(text[1], text[2])
    THEN Ok(Date(text[1], text[2], text[3]))
    ELSE Raise("ValueError", "does not match format")

\* within_requested_date_range, for a well-formed filing date
within_requested_date_range_strict(download_metadata, filing_date) ==
    LET target_date == Strptime(filing_date).value
    IN  download_metadata.after < target_date /\ target_date < download_metadata.before

within_requested_date_range(download_metadata, filing_date) ==
    LET target_date == Strptime(filing_date).value
    IN  download_metadata.after <= target_date /\ target_date <= download_metadata.before

-----------------------------------------------------------------------------
(***************************************************************************)
(* _constants.py (not in the source tree; values as the specification and  *)
(* the docstrings give them) and the URL templates.                        *)
(***************************************************************************)
AMENDS_SUFFIX == <<"/", "A">>

Form4  == <<"4">>
Form4A == <<"4", "/", "A">>
Form8K == <<"8", "-", "K">>

SUPPORTED_FORMS == {Form4, Form4A, Form8K}

DEFAULT_AFTER_DATE  == Date(1994, 1, 1)
DEFAULT_BEFORE_DATE == Date(2022, 6, 1)       \* date.today()

\* sys.maxsize, as far as TLC's integers reach
sys_maxsize == 2147483647

\* URL_SUBMISSIONS.format(cik=cik)
URL_SUBMISSIONS(cik) == <<"s", "/", "C">> \o cik

\* URL_PAGINATED_SUBMISSIONS.format(paginated_file_name=name)
URL_PAGINATED_SUBMISSIONS(paginated_file_name) == <<"s", "/">> \o paginated_file_name

\* URL_FILING.format(cik=cik, acc_num_no_dash=acc_num_no_dash, document=document)
URL_FILING(cik, acc_num_no_dash, document) ==
    <<"f", "/">> \o cik \o <<"/">> \o acc_num_no_dash \o <<"/">> \o document

-----------------------------------------------------------------------------
(***************************************************************************)
(* _DownloadFormManager.py: get_to_download                                *)
(***************************************************************************)
get_to_download(cik, acc_num, form, doc) ==
    LET cik_stripped    == StripChars(cik, {"0"})
        acc_num_no_dash == Replace(acc_num, <<"-">>, <<>>)
    IN  [form               |-> form,
         raw_filing_uri     |-> URL_FILING(cik_stripped, acc_num_no_dash,
                                           acc_num \o <<".", "t", "x", "t">>),
         primary_doc_uri    |-> URL_FILING(cik_stripped, acc_num_no_dash, doc),
         accession_number   |-> acc_num,
         details_doc_suffix |-> Replace(PathSuffix(doc), <<"h", "t", "m">>, <<"h", "t", "m", "l">>)]

-----------------------------------------------------------------------------
(***************************************************************************)
(* The archive: the first submissions response of a company (a recent      *)
(* batch of four parallel arrays and the list of continuation pages) and   *)
(* the continuation pages, each four parallel arrays.                      *)
(***************************************************************************)
MaxFilings == 2

ArrayKeys == {"accessionNumber", "form", "primaryDocument", "filingDate"}

\* the filings of the scenario: a window 2020-01-01..2020-12-31 and filings
\* on its two ends and one day outside each
RowKinds ==
    { [form |-> Form4,  date |-> <<2020, 1, 1>>],
      [form |-> Form4,  date |-> <<2020, 12, 31>>],
      [form |-> Form4,  date |-> <<2019, 12, 31>>],
      [form |-> Form4,  date |-> <<2021, 1, 1>>],
      [form |-> Form4A, date |-> <<2020, 12, 31>>] }

KindSeqs(n) == UNION {[1..k -> RowKinds] : k \in 0..n}

\* every list of p pages holding at most budget rows in all
RECURSIVE PageRows(_, _)
PageRows(p, budget) ==
    IF p = 0 THEN {<<>>}
    ELSE UNION { { <<first>> \o rest : rest \in PageRows(p - 1, budget - Len(first)) } :
                 first \in KindSeqs(budget) }

PrimaryDoc == <<"d", ".", "h", "t", "m">>

\* the accession number of row i of page p (page 0 is the recent batch)
AccNum(p, i) == <<DigitChar(p), "-", DigitChar(i)>>

PageOf(p, kinds) ==
    [accessionNumber |-> [i \in 1..Len(kinds) |-> AccNum(p, i)],
     form            |-> [i \in 1..Len(kinds) |-> kinds[i].form],
     primaryDocument |-> [i \in 1..Len(kinds) |-> PrimaryDoc],
     filingDate      |-> [i \in 1..Len(kinds) |-> kinds[i].date]]

\* the continuation pages the first response lists, in the listed order
FileLists ==
    { <<>>,
      <<[name |-> <<"p", "2">>]>>,
      <<[name |-> <<"p", "2">>], [name |-> <<"p", "1">>]>> }

WellFormedArchives ==
    UNION { { [recent |-> PageOf(0, rows[1]),
               files  |-> files,
               pages  |-> [i \in 1..Len(files) |-> PageOf(i, rows[i + 1])]] :
                  rows \in PageRows(Len(files) + 1, MaxFilings) } :
            files \in FileLists }

\* page p of an archive (0 the recent batch) with one array a row short
Shorten(a, p, key) ==
    IF p = 0
    THEN [a EXCEPT !.recent[key] = SubSeq(@, 1, Len(@) - 1)]
    ELSE [a EXCEPT !.pages[p][key] = SubSeq(@, 1, Len(@) - 1)]

PageAt(a, p) == IF p = 0 THEN a.recent ELSE a.pages[p]

\* zip(strict=True) treats its arguments alike but for the first: the
\* ragged pages have the first or the last array short
RaggedKeys == {"accessionNumber", "filingDate"}

RaggedArchives ==
    UNION { { Shorten(a, p, key) :
                p \in {q \in 0..Len(a.files) : PageAt(a, q).form # <<>>}, key \in RaggedKeys } :
            a \in WellFormedArchives }

Archives == WellFormedArchives \cup RaggedArchives

-----------------------------------------------------------------------------
(***************************************************************************)
(* BaseClient._rate_limited_get as the walk sees it: the URL is recorded,  *)
(* and the call returns the archive's response or raises EdgarAPIError.    *)
(***************************************************************************)
\* the JSON body the archive serves at url
Serve(a, cik, url) ==
    IF url = URL_SUBMISSIONS(cik)
    THEN [filings |-> [recent |-> a.recent, files |-> a.files]]
    ELSE LET i == CHOOSE j \in 1..Len(a.files) :
                      URL_PAGINATED_SUBMISSIONS(a.files[j].name) = url
         IN  a.pages[i]

-----------------------------------------------------------------------------
(***************************************************************************)
(* DownloadFormManager.aggregate_forms_to_download, one action per step.   *)
(*   pc = "loop"   at the head of the while loop                           *)
(*   pc = "rows"   in the for loop over zip(..., strict=True)              *)
(*   pc = "done"   returned (outcome holds the list)                       *)
(*   pc = "raised" an exception left the call (outcome holds it)           *)
(***************************************************************************)
\* `return filings_to_download` with the list l: to the direct caller, or
\* into the for loop of fetch_and_save_filings
ReturnList(l) ==
    IF caller = "fetch_and_save_filings"
    THEN /\ pc' = "save"
         /\ UNCHANGED outcome
    ELSE /\ pc' = "done"
         /\ outcome' = <<Ok(l)>>

\* an exception leaves the call
RaiseOut(exc, msg) ==
    /\ pc' = "raised"
    /\ outcome' = <<Raise(exc, msg)>>

\* the filter of the for loop: TRUE when the row is skipped
RowSkipped_no_amends_check(download_metadata, form, f_date) ==
    \/ \A i \in 1..Len(download_metadata.forms) : download_metadata.forms[i] # form
    \/ ~within_requested_date_range(download_metadata, f_date)

RowSkipped(download_metadata, form, f_date) ==
    \/ \A i \in 1..Len(download_metadata.forms) : download_metadata.forms[i] # form
    \/ (~download_metadata.include_amends /\ EndsWith(form, AMENDS_SUFFIX))
    \/ ~within_requested_date_range(download_metadata, f_date)

\* while fetched_count < limit and filings_available:
\*     resp_json = self._rate_limited_get(submissions_uri).json() ...
FetchPage ==
    /\ pc = "loop"
    /\ IF ~(fetched_count < meta.limit)
       THEN /\ ReturnList(filings_to_download)
            /\ UNCHANGED <<requested, additional_submissions, filings_json, zip_pos>>
       ELSE /\ requested' = Append(requested, submissions_uri)
            /\ \/ /\ RaiseOut("EdgarAPIError", "request failed")
                  /\ UNCHANGED <<additional_submissions, filings_json, zip_pos>>
               \/ LET resp_json == Serve(archive, meta.cik, submissions_uri)
                  IN  /\ IF additional_submissions = <<>>
                         THEN /\ filings_json' = resp_json.filings.recent
                              /\ additional_submissions' = <<resp_json.filings.files>>
                         ELSE /\ filings_json' = resp_json
                              /\ UNCHANGED additional_submissions
                      /\ zip_pos' = 0
                      /\ pc' = "rows"
                      /\ UNCHANGED outcome
    /\ UNCHANGED <<clientVars, limVars, serviceVars, resolveVars, dlVars, archive, caller, meta, filings_to_download,
                   fetched_count, submissions_uri>>

\* the four arrays of the page being zipped
ZipArgs == <<filings_json.accessionNumber, filings_json.form,
             filings_json.primaryDocument, filings_json.filingDate>>

\* zip(..., strict=True): the next tuple exists when every array has one more item
ZipHasNext  == \A k \in 1..4 : zip_pos < Len(ZipArgs[k])
\* the iteration ends cleanly when every array is exhausted together
ZipFinished == \A k \in 1..4 : zip_pos = Len(ZipArgs[k])

\* the code after the return: the limit test of line 99
LimitReached_never(count, limit) == FALSE

LimitReached(count, limit) == count = limit

\* one iteration of the for loop
ScanRow ==
    /\ pc = "rows"
    /\ ZipHasNext
    /\ LET acc_num == ZipArgs[1][zip_pos + 1]
           form    == ZipArgs[2][zip_pos + 1]
           doc     == ZipArgs[3][zip_pos + 1]
           f_date  == ZipArgs[4][zip_pos + 1]
       IN  IF RowSkipped(meta, form, f_date)
           THEN /\ zip_pos' = zip_pos + 1
                /\ UNCHANGED <<pc, outcome, filings_to_download, fetched_count>>
           ELSE LET appended == Append(filings_to_download,
                                       get_to_download(meta.cik, acc_num, form, doc))
                IN  /\ filings_to_download' = appended
                    /\ fetched_count' = fetched_count + 1
                    /\ zip_pos' = zip_pos + 1
                    /\ IF LimitReached(fetched_count + 1, meta.limit)
                       THEN ReturnList(appended)
                       ELSE UNCHANGED <<pc, outcome>>
    /\ UNCHANGED <<clientVars, limVars, serviceVars, resolveVars, dlVars, netVars, caller, meta, submissions_uri,
                   additional_submissions, filings_json>>

\* zip(strict=True) finds the arrays of unequal length: ValueError
ZipStrictError ==
    /\ pc = "rows"
    /\ ~ZipHasNext /\ ~ZipFinished
    /\ RaiseOut("ValueError", "zip() arguments differ in length")
    /\ UNCHANGED <<clientVars, limVars, serviceVars, resolveVars, dlVars, netVars, caller, meta, filings_to_download,
                   fetched_count, submissions_uri, additional_submissions, filings_json,
                   zip_pos>>

\* next_page = additional_submissions.popleft()["name"]: the name taken and
\* the queue left; the mutant peeks without removing
PopLeft_peek(q) == [name |-> Head(q).name, rest |-> q]

PopLeft(q) == [name |-> Head(q).name, rest |-> Tail(q)]

\* after the for loop: break on an empty queue, else take the next page
EndOfPage ==
    /\ pc = "rows"
    /\ ZipFinished
    /\ LET q == additional_submissions[1]
       IN  IF Len(q) = 0
           THEN /\ ReturnList(filings_to_download)
                /\ UNCHANGED <<submissions_uri, additional_submissions>>
           ELSE /\ submissions_uri' = URL_PAGINATED_SUBMISSIONS(PopLeft(q).name)
                /\ additional_submissions' = <<PopLeft(q).rest>>
                /\ pc' = "loop"
                /\ UNCHANGED outcome
    /\ UNCHANGED <<clientVars, limVars, serviceVars, resolveVars, dlVars, netVars, caller, meta, filings_to_download,
                   fetched_count, filings_json, zip_pos>>

AggStep == FetchPage \/ ScanRow \/ ZipStrictError \/ EndOfPage

-----------------------------------------------------------------------------
(***************************************************************************)
(* SpecAgg: aggregate_forms_to_download called on a download request with  *)
(* limit >= 1, against every archive of the bounds.                        *)
(***************************************************************************)
MaxLimit == 2

Limits == (1..MaxLimit) \cup {sys_maxsize}

FormLists == { <<Form4>>, <<Form4, Form4A>> }

DefaultDirectory ==
    [fields |-> DirectoryFields,
     data   |-> << <<12, <<"N", "1", "2">>, <<"a", "b">>, "X">>, <<10, <<"N", "1", "0">>, <<"b">>, "X">> >>]

CompanyCik == Zfill(<<"1", "2">>, CIK_LENGTH)

AggMetas ==
    { [download_folder  |-> "root",
       forms            |-> f,
       cik              |-> CompanyCik,
       ticker           |-> <<"A", "B">>,
       limit            |-> l,
       after            |-> Date(2020, 1, 1),
       before           |-> Date(2020, 12, 31),
       include_amends   |-> ia,
       download_details |-> FALSE] :
          f \in FormLists, l \in Limits, ia \in BOOLEAN }

\* the locals at the entry of aggregate_forms_to_download
EnterAggregate(download_metadata, from) ==
    /\ pc = "loop"
    /\ caller = from
    /\ meta = download_metadata
    /\ filings_to_download = <<>>
    /\ fetched_count = 0
    /\ submissions_uri = URL_SUBMISSIONS(download_metadata.cik)
    /\ additional_submissions = <<>>
    /\ filings_json = <<>>
    /\ zip_pos = 0
    /\ outcome = <<>>

InitAgg ==
    /\ InitClient(DefaultDirectory)
    /\ resolved = <<>>
    /\ IdleCalls
    /\ archive \in Archives
    /\ requested = <<>>
    /\ IdleDl
    /\ IdleService
    /\ IdleLim
    /\ \E m \in AggMetas : EnterAggregate(m, "direct")

NextAgg == AggStep

SpecAgg == InitAgg /\ [][NextAgg]_vars

-----------------------------------------------------------------------------
(***************************************************************************)
(* Aggregation claims (SpecAgg).                                           *)
(***************************************************************************)
Min(a, b) == IF a <= b THEN a ELSE b

\* the rows of a page: its four arrays zipped, as far as all four reach
CommonLen(page) ==
    Min(Min(Len(page.accessionNumber), Len(page.form)),
        Min(Len(page.primaryDocument), Len(page.filingDate)))

PageRowList(page) ==
    [i \in 1..CommonLen(page) |->
        [acc |-> page.accessionNumber[i], form |-> page.form[i],
         doc |-> page.primaryDocument[i], date |-> page.filingDate[i]]]

IsRagged(page) == \E k \in ArrayKeys : Len(page[k]) # CommonLen(page)

\* the rows of the first n continuation pages, in listed order
RECURSIVE ContinuationRows(_, _)
ContinuationRows(a, n) ==
    IF n = 0 THEN <<>> ELSE ContinuationRows(a, n - 1) \o PageRowList(a.pages[n])

\* the hypothetical unpaginated response
FlatRows(a) == PageRowList(a.recent) \o ContinuationRows(a, Len(a.files))

\* the filter of the specification, on a row
Accepted(m, row) ==
    /\ \E i \in 1..Len(m.forms) : m.forms[i] = row.form
    /\ m.include_amends \/ ~EndsWith(row.form, <<"/", "A">>)
    /\ m.after <= Strptime(row.date).value
    /\ Strptime(row.date).value <= m.before

AcceptedRows(m, a) == SelectSeq(FlatRows(a), LAMBDA row : Accepted(m, row))

FirstN(seq, n) == SubSeq(seq, 1, Min(n, Len(seq)))

\* the page URLs of a walk, in order
PageUrls(a, cik) ==
    <<URL_SUBMISSIONS(cik)>> \o
        [i \in 1..Len(a.files) |-> URL_PAGINATED_SUBMISSIONS(a.files[i].name)]

IsPrefix(p, q) == Len(p) <= Len(q) /\ SubSeq(q, 1, Len(p)) = p

NoRepeat(seq) == \A i, j \in 1..Len(seq) : i # j => seq[i] # seq[j]

Walking == pc \in {"loop", "rows", "done", "raised"}

\* C1: the walk never holds more than `limit` descriptors, and from the
\* moment the number of accepted rows equals the limit no further request
\* is issued.
C1_LimitRespected ==
    [][ /\ Walking' => Len(filings_to_download') <= meta'.limit
        /\ (Walking /\ Len(filings_to_download) >= meta.limit) => requested' = requested
      ]_vars

\* the limit was reached in the middle of a page, with a page still queued
C1_Witness ==
    /\ pc = "done"
    /\ Len(filings_to_download) = meta.limit
    /\ zip_pos < Len(filings_json.form)
    /\ additional_submissions # <<>> /\ additional_submissions[1] # <<>>
    /\ Len(requested) = 1

\* an upper bound of the steps a walk has left: a fetch, the rows and the
\* end of each page not yet requested, and the rest of the page being zipped
StepsLeft ==
    LET pages_left == 1 + Len(archive.files) - Len(requested)
    IN  CASE pc = "loop" -> pages_left * (MaxFilings + 2)
          [] pc = "rows" -> pages_left * (MaxFilings + 2)
                              + (CommonLen(filings_json) - zip_pos) + 1
          [] OTHER       -> 0

\* C2: the requests of a walk are a prefix of: the first page, then the
\* continuation pages in the order the archive listed them, so no URL is
\* requested twice and there are at most 1 + (listed pages) requests; and
\* the walk ends: every step it takes lowers the bound StepsLeft, which
\* is a natural number.
C2_PagesOnceInOrder ==
    /\ [](Walking => /\ IsPrefix(requested, PageUrls(archive, meta.cik))
                     /\ NoRepeat(requested)
                     /\ Len(requested) <= 1 + Len(archive.files))
    /\ [][Walking => (StepsLeft' < StepsLeft /\ StepsLeft' >= 0)]_vars

\* both continuation pages were requested, in the listed order, and the walk returned
C2_Witness ==
    /\ pc = "done"
    /\ Len(archive.files) = 2
    /\ requested = PageUrls(archive, meta.cik)

\* C3: the list returned equals the descriptors of the first min(limit, k)
\* accepted rows of the recent batch followed by the continuation pages in
\* listed order, k being the number of accepted rows.
C3_FlatOrder ==
    pc = "done" =>
        LET rows == FirstN(AcceptedRows(meta, archive), meta.limit)
        IN  outcome[1].value =
                [i \in 1..Len(rows) |->
                    get_to_download(meta.cik, rows[i].acc, rows[i].form, rows[i].doc)]

\* limit 1, two accepted filings listed latest first on different pages:
\* the earliest-listed one is returned
C3_Witness ==
    /\ pc = "done"
    /\ meta.limit = 1
    /\ Len(AcceptedRows(meta, archive)) = 2
    /\ AcceptedRows(meta, archive)[1].date = <<2020, 12, 31>>
    /\ AcceptedRows(meta, archive)[2].date = <<2020, 1, 1>>
    /\ Len(outcome[1].value) = 1
    /\ outcome[1].value[1].accession_number = AcceptedRows(meta, archive)[1].acc

\* C4: every descriptor in the output list comes from a row whose form is
\* in the accepted set, is no amendment unless amendments are included, and
\* whose filing date lies in [after, before], both ends included.
C4_OutputFiltered ==
    Walking =>
        \A i \in 1..Len(filings_to_download) :
            \E n \in 1..Len(FlatRows(archive)) :
                LET row == FlatRows(archive)[n]
                IN  /\ row.acc = filings_to_download[i].accession_number
                    /\ row.form = filings_to_download[i].form
                    /\ Accepted(meta, row)

\* amendments are excluded, the page held one, and a filing dated on each
\* end of the window was accepted
C4_Witness ==
    /\ pc = "done"
    /\ ~meta.include_amends
    /\ \E i \in 1..Len(meta.forms) : meta.forms[i] = Form4A
    /\ \E n \in 1..Len(FlatRows(archive)) : FlatRows(archive)[n].form = Form4A
    /\ Len(filings_to_download) = 1
    /\ \E n \in 1..Len(FlatRows(archive)) :
           /\ FlatRows(archive)[n].acc = filings_to_download[1].accession_number
           /\ Strptime(FlatRows(archive)[n].date).value \in {meta.after, meta.before}

\* the pages a walk has consumed
ConsumedPages ==
    { IF n = 1 THEN archive.recent ELSE archive.pages[n - 1] : n \in 1..Len(requested) }

\* C5 (as claimed): a walk that consumed a page whose four arrays differ in
\* length never returns a descriptor list.
C5_RaggedIsFatal ==
    pc = "done" => \A page \in ConsumedPages : ~IsRagged(page)


-----------------------------------------------------------------------------
(***************************************************************************)
(* _utils.py: the date arguments of a download.  A date argument is None   *)
(* (<<>>) or a string (<<text>>).                                          *)
(***************************************************************************)
\* validate_and_parse_date, for a string argument
validate_and_parse_date(date_format) ==
    IF Strptime(date_format).ok
    THEN Strptime(date_format)
    ELSE Raise("ValueError", "Incorrect date format.")

Max(a, b) == IF a >= b THEN a ELSE b

\* the same with the parsed date raised to after_date when it is earlier
get_valid_after_date_clamped(after, after_date) ==
    IF after = <<>>
    THEN Ok(after_date)
    ELSE LET parsed == validate_and_parse_date(after[1])
         IN  IF parsed.ok THEN Ok(Max(parsed.value, after_date)) ELSE parsed

get_valid_after_date(after, after_date) ==
    IF after = <<>>
    THEN Ok(after_date)
    ELSE LET parsed == validate_and_parse_date(after[1])
         IN  IF parsed.ok THEN Ok(Max(parsed.value, parsed.value)) ELSE parsed

-----------------------------------------------------------------------------
(***************************************************************************)
(* EdgarClient.download_forms_by_company: the checks of its arguments, in  *)
(* the order of the code, up to the FormsDownloadMetadata it hands to      *)
(* fetch_and_save_filings.                                                 *)
(***************************************************************************)
NoneText == <<"N", "o", "n", "e">>

\* form_types with the supported forms removed
UnsupportedForms(form_types) ==
    SelectSeq(form_types, LAMBDA form : form \notin SUPPORTED_FORMS)

\* the same checks without the test of the form types
DownloadMetadata_no_forms_check(a, t2c, c2t) ==
    LET cik         == validate_and_return_cik(a.ticker_or_cik, t2c)
        limit       == IF a.limit = <<>> THEN sys_maxsize ELSE a.limit[1]
        after_date  == get_valid_after_date(a.after, DEFAULT_AFTER_DATE)
        before_date == IF a.before = <<>> THEN Ok(DEFAULT_BEFORE_DATE)
                       ELSE validate_and_parse_date(a.before[1])
    IN  IF ~cik.ok THEN cik
        ELSE IF limit < 1 THEN Raise("ValueError", "Invalid limit.")
        ELSE IF ~after_date.ok THEN after_date
        ELSE IF ~before_date.ok THEN before_date
        ELSE IF after_date.value > before_date.value
             THEN Raise("ValueError", "After date cannot be greater than the before date.")
        ELSE Ok([download_folder  |-> "root",
                 forms            |-> a.form_types,
                 cik              |-> cik.value,
                 ticker           |-> IF cik.value \in DictKeys(c2t)
                                      THEN DictGet(c2t, cik.value) ELSE NoneText,
                 limit            |-> limit,
                 after            |-> after_date.value,
                 before           |-> before_date.value,
                 include_amends   |-> a.include_amends,
                 download_details |-> a.download_details])

DownloadMetadata(a, t2c, c2t) ==
    LET cik         == validate_and_return_cik(a.ticker_or_cik, t2c)
        limit       == IF a.limit = <<>> THEN sys_maxsize ELSE a.limit[1]
        after_date  == get_valid_after_date(a.after, DEFAULT_AFTER_DATE)
        before_date == IF a.before = <<>> THEN Ok(DEFAULT_BEFORE_DATE)
                       ELSE validate_and_parse_date(a.before[1])
    IN  IF ~cik.ok THEN cik
        ELSE IF limit < 1 THEN Raise("ValueError", "Invalid limit.")
        ELSE IF ~after_date.ok THEN after_date
        ELSE IF ~before_date.ok THEN before_date
        ELSE IF after_date.value > before_date.value
             THEN Raise("ValueError", "After date cannot be greater than the before date.")
        ELSE IF UnsupportedForms(a.form_types) # <<>>
             THEN Raise("ValueError", "The following forms aren't supported.")
        ELSE Ok([download_folder  |-> "root",
                 forms            |-> a.form_types,
                 cik              |-> cik.value,
                 ticker           |-> IF cik.value \in DictKeys(c2t)
                                      THEN DictGet(c2t, cik.value) ELSE NoneText,
                 limit            |-> limit,
                 after            |-> after_date.value,
                 before           |-> before_date.value,
                 include_amends   |-> a.include_amends,
                 download_details |-> a.download_details])

\* the call: the arguments are checked, then fetch_and_save_filings sets its
\* counter and enters aggregate_forms_to_download
download_forms_by_company(a) ==
    /\ pc = "idle"
    /\ dl_args' = <<a>>
    /\ LET v == DownloadMetadata(a, ticker_to_cik_mapping, cik_to_ticker_mapping)
       IN  IF ~v.ok
           THEN /\ RaiseOut(v.exc, v.msg)
                /\ UNCHANGED <<caller, meta, filings_to_download, fetched_count,
                               submissions_uri, additional_submissions, filings_json,
                               zip_pos, td_pos, successfully_downloaded>>
           ELSE /\ successfully_downloaded' = 0
                /\ td_pos' = 1
                /\ pc' = "loop"
                /\ caller' = "fetch_and_save_filings"
                /\ meta' = v.value
                /\ filings_to_download' = <<>>
                /\ fetched_count' = 0
                /\ submissions_uri' = URL_SUBMISSIONS(v.value.cik)
                /\ additional_submissions' = <<>>
                /\ filings_json' = <<>>
                /\ zip_pos' = 0
                /\ UNCHANGED outcome
    /\ UNCHANGED <<clientVars, limVars, serviceVars, resolveVars, netVars, written>>

-----------------------------------------------------------------------------
(***************************************************************************)
(* DownloadFormManager.fetch_and_save_filings: the for loop over           *)
(* to_download, the list aggregate_forms_to_download returned (held in     *)
(* filings_to_download).                                                   *)
(*   pc = "save"         at the head of the for loop                       *)
(*   pc = "save_detail"  the raw submission of td is written, the primary  *)
(*                       document is next                                  *)
(* written holds the paths whose write_bytes completed.                    *)
(***************************************************************************)
ROOT_FORMS_SAVE_FOLDER_NAME   == <<"f", "o", "r", "m", "s">>
FORM_FULL_SUBMISSION_FILENAME == <<"f", ".", "t", "x", "t">>
PRIMARY_DOC_FILENAME_STEM     == <<"p">>

\* the path, its components joined by "/"
get_forms_save_location(download_metadata, form, accession_number, save_filename) ==
    <<download_metadata.download_folder, "/">>
        \o ROOT_FORMS_SAVE_FOLDER_NAME \o <<"/">>
        \o download_metadata.ticker \o <<"-">> \o download_metadata.cik \o <<"/">>
        \o form \o <<"/">>
        \o accession_number \o <<"/">>
        \o save_filename

\* `if download_metadata.download_details:`
NeedsDetail_never(download_metadata) == FALSE

NeedsDetail(download_metadata) == download_metadata.download_details

\* the raw submission of td with a failed download caught inside the loop,
\* which goes on with the next filing
SaveRaw_caught ==
    /\ pc = "save"
    /\ td_pos <= Len(filings_to_download)
    /\ LET td == filings_to_download[td_pos]
       IN  /\ requested' = Append(requested, td.raw_filing_uri)
           /\ \/ /\ td_pos' = td_pos + 1
                 /\ UNCHANGED <<written, pc, outcome, successfully_downloaded>>
              \/ /\ written' = written \cup
                        {get_forms_save_location(meta, td.form, td.accession_number,
                                                 FORM_FULL_SUBMISSION_FILENAME)}
                 /\ IF NeedsDetail(meta)
                    THEN /\ pc' = "save_detail"
                         /\ UNCHANGED <<td_pos, successfully_downloaded>>
                    ELSE /\ successfully_downloaded' = successfully_downloaded + 1
                         /\ td_pos' = td_pos + 1
                         /\ UNCHANGED pc
                 /\ UNCHANGED outcome
    /\ UNCHANGED <<clientVars, limVars, serviceVars, resolveVars, archive, dl_args, caller, meta,
                   filings_to_download, fetched_count, submissions_uri,
                   additional_submissions, filings_json, zip_pos>>

\* the raw submission of td: requested, then written
SaveRaw ==
    /\ pc = "save"
    /\ td_pos <= Len(filings_to_download)
    /\ LET td == filings_to_download[td_pos]
       IN  /\ requested' = Append(requested, td.raw_filing_uri)
           /\ \/ /\ RaiseOut("EdgarAPIError", "request failed")
                 /\ UNCHANGED <<written, td_pos, successfully_downloaded>>
              \/ /\ RaiseOut("OSError", "write failed")
                 /\ UNCHANGED <<written, td_pos, successfully_downloaded>>
              \/ /\ written' = written \cup
                        {get_forms_save_location(meta, td.form, td.accession_number,
                                                 FORM_FULL_SUBMISSION_FILENAME)}
                 /\ IF NeedsDetail(meta)
                    THEN /\ pc' = "save_detail"
                         /\ UNCHANGED <<td_pos, successfully_downloaded>>
                    ELSE /\ successfully_downloaded' = successfully_downloaded + 1
                         /\ td_pos' = td_pos + 1
                         /\ UNCHANGED pc
                 /\ UNCHANGED outcome
    /\ UNCHANGED <<clientVars, limVars, serviceVars, resolveVars, archive, dl_args, caller, meta,
                   filings_to_download, fetched_count, submissions_uri,
                   additional_submissions, filings_json, zip_pos>>

\* the primary document of td: requested, then written
SaveDetail ==
    /\ pc = "save_detail"
    /\ LET td == filings_to_download[td_pos]
           primary_doc_filename == PRIMARY_DOC_FILENAME_STEM \o td.details_doc_suffix
       IN  /\ requested' = Append(requested, td.primary_doc_uri)
           /\ \/ /\ RaiseOut("EdgarAPIError", "request failed")
                 /\ UNCHANGED <<written, td_pos, successfully_downloaded>>
              \/ /\ RaiseOut("OSError", "write failed")
                 /\ UNCHANGED <<written, td_pos, successfully_downloaded>>
              \/ /\ written' = written \cup
                        {get_forms_save_location(meta, td.form, td.accession_number,
                                                 primary_doc_filename)}
                 /\ successfully_downloaded' = successfully_downloaded + 1
                 /\ td_pos' = td_pos + 1
                 /\ pc' = "save"
                 /\ UNCHANGED outcome
    /\ UNCHANGED <<clientVars, limVars, serviceVars, resolveVars, archive, dl_args, caller, meta,
                   filings_to_download, fetched_count, submissions_uri,
                   additional_submissions, filings_json, zip_pos>>

\* the list is exhausted: return successfully_downloaded (and
\* download_forms_by_company returns num_downloaded)
SaveReturn ==
    /\ pc = "save"
    /\ td_pos > Len(filings_to_download)
    /\ pc' = "done"
    /\ outcome' = <<Ok(successfully_downloaded)>>
    /\ UNCHANGED <<clientVars, limVars, serviceVars, resolveVars, netVars, dlVars, caller, meta,
                   filings_to_download, fetched_count, submissions_uri,
                   additional_submissions, filings_json, zip_pos>>

-----------------------------------------------------------------------------
(***************************************************************************)
(* SpecDownload: one call of download_forms_by_company on a client whose   *)
(* directory is loaded, with arguments valid and invalid, against small    *)
(* archives.                                                               *)
(***************************************************************************)
DownloadRowKinds ==
    { [form |-> Form4,  date |-> <<2020, 1, 1>>],
      [form |-> Form4A, date |-> <<2019, 12, 31>>] }

DownloadKindSeqs(n) == UNION {[1..k -> DownloadRowKinds] : k \in 0..n}

\* a recent batch and one continuation page, MaxFilings rows at most
DownloadWellFormed ==
    UNION { { [recent |-> PageOf(0, first),
               files  |-> <<[name |-> <<"p", "2">>]>>,
               pages  |-> <<PageOf(1, second)>>] :
                  second \in DownloadKindSeqs(MaxFilings - Len(first)) } :
            first \in DownloadKindSeqs(MaxFilings) }

DownloadArchives ==
    DownloadWellFormed \cup
    { Shorten(a, 0, "filingDate") : a \in {b \in DownloadWellFormed : b.recent.form # <<>>} }

FormUnsupported == <<"S", "-", "9">>

TickerArgs == { <<"a", "b">>, <<"1", "2">>, <<"k">> }
LimitArgs  == { <<>> } \cup { <<n>> : n \in 0..MaxLimit }
WindowArgs ==
    { [after |-> <<>>,                  before |-> <<>>],
      [after |-> << <<2020, 1, 1>> >>,   before |-> << <<2020, 12, 31>> >>],
      [after |-> << <<2020, 1, 1>> >>,   before |-> << <<2020, 1, 1>> >>],
      [after |-> << <<2020, 1, 2>> >>,   before |-> << <<2020, 1, 1>> >>],
      [after |-> << <<2020, 13, 1>> >>,  before |-> <<>>],
      [after |-> << <<1993, 12, 31>> >>, before |-> <<>>] }
FormArgs   == { <<Form4>>, <<Form4, Form4A>>, <<Form4, FormUnsupported>> }

DownloadArgs ==
    { [ticker_or_cik    |-> t,
       form_types       |-> f,
       limit            |-> l,
       after            |-> w.after,
       before           |-> w.before,
       include_amends   |-> ia,
       download_details |-> dd] :
          t \in TickerArgs, f \in FormArgs, l \in LimitArgs, w \in WindowArgs,
          ia \in BOOLEAN, dd \in BOOLEAN }

InitDownload ==
    /\ InitClient(DefaultDirectory)
    /\ resolved = <<>>
    /\ IdleCalls
    /\ archive \in DownloadArchives
    /\ requested = <<>>
    /\ IdleAgg
    /\ IdleDl
    /\ IdleService
    /\ IdleLim

Download == \E a \in DownloadArgs : download_forms_by_company(a)

NextDownload == Download \/ AggStep \/ SaveRaw \/ SaveDetail \/ SaveReturn

SpecDownload == InitDownload /\ [][NextDownload]_vars

-----------------------------------------------------------------------------
(***************************************************************************)
(* Argument validation of a download.                                      *)
(***************************************************************************)
\* the date a date argument denotes, for a well-formed one
ArgDate(d, default) == IF d = <<>> THEN default ELSE Date(d[1][1], d[1][2], d[1][3])

WellFormedDate(d) ==
    d = <<>> \/ (d[1][2] \in 1..12 /\ d[1][3] \in 1..DaysInMonth(d[1][1], d[1][2]))

\* the three faults of the arguments
WindowInverted(a) ==
    /\ WellFormedDate(a.after) /\ WellFormedDate(a.before)
    /\ ArgDate(a.after, DEFAULT_AFTER_DATE) > ArgDate(a.before, DEFAULT_BEFORE_DATE)
FormOutsideSupported(a) == \E i \in 1..Len(a.form_types) : a.form_types[i] \notin SUPPORTED_FORMS
LimitBelowOne(a) == a.limit # <<>> /\ a.limit[1] < 1

\* C6: a call of download_forms_by_company with an after date later than
\* the before date, with a form type outside the supported forms or with a
\* limit below 1 ends in a ValueError, with no request issued and no file
\* written.
C6_InvalidRejectedFirst ==
    (dl_args # <<>> /\ (WindowInverted(dl_args[1]) \/ FormOutsideSupported(dl_args[1])
                          \/ LimitBelowOne(dl_args[1])))
        => /\ pc = "raised"
           /\ outcome[1].exc = "ValueError"
           /\ requested = <<>>
           /\ written = {}

\* a call with a known ticker, a valid limit and window and an unsupported
\* form was rejected
C6_Witness ==
    /\ dl_args # <<>>
    /\ dl_args[1].ticker_or_cik = <<"a", "b">>
    /\ FormOutsideSupported(dl_args[1])
    /\ ~WindowInverted(dl_args[1]) /\ ~LimitBelowOne(dl_args[1])
    /\ WellFormedDate(dl_args[1].after)
    /\ pc = "raised"
    /\ outcome[1].msg = "The following forms aren't supported."
    /\ requested = <<>>
    /\ written = {}


-----------------------------------------------------------------------------
(***************************************************************************)
(* _BaseClient.py: the module-level limiter and the decorator of           *)
(* _rate_limited_get.                                                      *)
(*   rate = RequestRate(MAX_REQUESTS_PER_SECOND, Duration.SECOND)          *)
(*   limiter = Limiter(rate)                                               *)
(*   @limiter.ratelimit(delay=True)                                        *)
(* The decorator calls limiter.try_acquire on its identities before the    *)
(* function and, on a full bucket, sleeps and tries again.  try_acquire    *)
(* inspects and fills one bucket per identity it is given; the decorator   *)
(* of the code gives none.                                                 *)
(***************************************************************************)
MAX_REQUESTS_PER_SECOND == 10

\* Duration.SECOND, in ticks of the clock
DurationSecond == 2

\* the identities of @limiter.ratelimit(delay=True)
RatelimitIdentities == <<>>

Range(seq) == {seq[i] : i \in 1..Len(seq)}

\* the items of a bucket inside the window that ends at t
InWindow(bucket, t) ==
    Cardinality({i \in 1..Len(bucket) : bucket[i] > t - DurationSecond})

\* Limiter.try_acquire on the identities at time t: refused when the bucket of
\* an identity holds the rate's limit inside the window, else t is put into
\* the bucket of every identity
try_acquire(identities, buckets, t) ==
    IF \E k \in 1..Len(identities) :
           InWindow(buckets[identities[k]], t) >= MAX_REQUESTS_PER_SECOND
    THEN [acquired |-> FALSE, buckets |-> buckets]
    ELSE [acquired |-> TRUE,
          buckets  |-> [id \in DOMAIN buckets |->
                           IF id \in Range(identities)
                           THEN Append(buckets[id], t) ELSE buckets[id]]]

NumCallers == 2
MaxCalls   == 11
MaxTime    == 2

Callers == 1..NumCallers

\* a caller enters the wrapper of _rate_limited_get
CallGet(c) ==
    /\ caller_pc[c] = "idle"
    /\ calls_made < MaxCalls
    /\ calls_made' = calls_made + 1
    /\ caller_pc' = [caller_pc EXCEPT ![c] = "acquire"]
    /\ UNCHANGED <<now, bucket_group, let_through, dispatched>>
    /\ UNCHANGED <<clientVars, resolveVars, netVars, aggVars, dlVars, serviceVars>>

\* delayed_acquire: try_acquire, and on a full bucket sleep and try again
Acquire(c) ==
    /\ caller_pc[c] = "acquire"
    /\ LET r == try_acquire(RatelimitIdentities, bucket_group, now)
       IN  /\ bucket_group' = r.buckets
           /\ caller_pc' = [caller_pc EXCEPT ![c] = IF r.acquired THEN "get" ELSE "acquire"]
           /\ let_through' = IF r.acquired THEN Append(let_through, now) ELSE let_through
    /\ UNCHANGED <<now, calls_made, dispatched>>
    /\ UNCHANGED <<clientVars, resolveVars, netVars, aggVars, dlVars, serviceVars>>

\* the body: self._session.get(url, headers=...) sends the request and the
\* call returns or raises
SessionGet(c) ==
    /\ caller_pc[c] = "get"
    /\ dispatched' = Append(dispatched, now)
    /\ caller_pc' = [caller_pc EXCEPT ![c] = "idle"]
    /\ UNCHANGED <<now, bucket_group, calls_made, let_through>>
    /\ UNCHANGED <<clientVars, resolveVars, netVars, aggVars, dlVars, serviceVars>>

\* time passes; a caller let into the body sends its request within the
\* tick (the body is a header copy and the call of session.get)
Tick ==
    /\ now < MaxTime
    /\ \A c \in Callers : caller_pc[c] # "get"
    /\ now' = now + 1
    /\ UNCHANGED <<bucket_group, caller_pc, calls_made, let_through, dispatched>>
    /\ UNCHANGED <<clientVars, resolveVars, netVars, aggVars, dlVars, serviceVars>>

InitLimiter ==
    /\ InitClient(DefaultDirectory)
    /\ resolved = <<>>
    /\ IdleCalls
    /\ IdleNet
    /\ IdleAgg
    /\ IdleDl
    /\ IdleService
    /\ now = 0
    /\ bucket_group = [id \in Range(RatelimitIdentities) |-> <<>>]
    /\ caller_pc = [c \in Callers |-> "idle"]
    /\ calls_made = 0
    /\ let_through = <<>>
    /\ dispatched = <<>>

NextLimiter ==
    \/ \E c \in Callers : CallGet(c)
    \/ \E c \in Callers : Acquire(c)
    \/ \E c \in Callers : SessionGet(c)
    \/ Tick

SpecLimiter == InitLimiter /\ [][NextLimiter]_vars

-----------------------------------------------------------------------------
(***************************************************************************)
(* The request budget.                                                     *)
(***************************************************************************)
\* C9: no request is dispatched while MAX_REQUESTS_PER_SECOND requests have
\* already been dispatched within the trailing second: every dispatch has
\* fewer than MAX_REQUESTS_PER_SECOND earlier dispatches inside the window
\* that ends at it.
C9_WindowNeverOverfull ==
    \A i \in 1..Len(dispatched) :
        Cardinality({j \in 1..(i - 1) : dispatched[j] > dispatched[i] - DurationSecond})
            < MAX_REQUESTS_PER_SECOND

\* C10: the budget is checked and the slot recorded in one step, so no two
\* callers take the last slot of a window: every caller let into the body
\* found fewer than MAX_REQUESTS_PER_SECOND callers let through before it
\* inside the window that ends at its own admission.
C10_LastSlotTakenOnce ==
    \A i \in 1..Len(let_through) :
        Cardinality({j \in 1..(i - 1) : let_through[j] > let_through[i] - DurationSecond})
            < MAX_REQUESTS_PER_SECOND


-----------------------------------------------------------------------------
(***************************************************************************)
(* _BaseClient.py: the session, the retry policy and the body of           *)
(* _rate_limited_get.                                                      *)
(*   retries = Retry(total=MAX_RETRIES, backoff_factor=BACKOFF_FACTOR,     *)
(*                   status_forcelist=[403, 500, 502, 503, 504])           *)
(*   self._session.mount(..., HTTPAdapter(max_retries=retries))            *)
(* session.get hands the request to the adapter, which sends it again      *)
(* under the Retry object and raises once the Retry object is exhausted.   *)
(***************************************************************************)
MAX_RETRIES == 3

STANDARD_HEADERS == << <<"Accept-Encoding", <<"g", "z">> >> >>
HOST_DATA_SEC    == <<"d", "a", "t", "a">>
HOST_WWW_SEC     == <<"w", "w", "w">>

\* the headers of a fresh requests.Session()
DefaultSessionHeaders ==
    << <<"User-Agent", <<"r", "q">> >>, <<"Accept-Encoding", <<"i", "d">> >>,
       <<"Accept", <<"*">> >>, <<"Connection", <<"k", "a">> >> >>

\* d.update(other), key by key in the order of other
RECURSIVE DictUpdate(_, _)
DictUpdate(d, other) ==
    IF other = <<>> THEN d
    ELSE DictUpdate(DictSet(d, Head(other)[1], Head(other)[2]), Tail(other))

\* BaseClient.__init__: the headers of the session
BaseSessionHeaders(ua) ==
    DictUpdate(DefaultSessionHeaders,
               STANDARD_HEADERS \o << <<"User-Agent", ua>>, <<"Host", HOST_DATA_SEC>> >>)

\* the headers _rate_limited_get hands to session.get; headers and host are
\* None (<<>>) or given (<<value>>)
MergedHeaders(base, headers, host) ==
    IF headers # <<>> THEN DictUpdate(base, headers[1])
    ELSE IF host # <<>> THEN DictUpdate(base, << <<"Host", host[1]>> >>)
    ELSE base

\* self._session.headers after the merge made in place, without the copy
SessionHeadersAfter_in_place(base, headers, host) == MergedHeaders(base, headers, host)

\* self._session.headers after _rate_limited_get merged the per-call headers:
\* the update is made on self._session.headers.copy()
SessionHeadersAfter(base, headers, host) == base

status_forcelist == {403, 500, 502, 503, 504}

\* Retry.RETRY_AFTER_STATUS_CODES, honoured by default
RETRY_AFTER_STATUS_CODES == {413, 429, 503}

\* Retry.is_retry for a GET that met a response
is_retry(total, status_code, has_retry_after) ==
    \/ status_code \in status_forcelist
    \/ (total # 0 /\ has_retry_after /\ status_code \in RETRY_AFTER_STATUS_CODES)

\* Retry.is_exhausted after an increment
is_exhausted_never(total) == FALSE

is_exhausted(total) == total < 0

\* what the exception or the response of a call carries
TransportError(exc, origin, status_code, url) ==
    [ok |-> FALSE, exc |-> exc, origin |-> origin, status_code |-> status_code, url |-> url]

TransportResponse(status_code, url) ==
    [ok |-> TRUE, status_code |-> status_code, url |-> url]

\* what one attempt can meet: no connection, or a response
ConnectionFailure == [kind |-> "error", status_code |-> 0, retry_after |-> FALSE]

Answer(status_code, retry_after) ==
    [kind |-> "response", status_code |-> status_code, retry_after |-> retry_after]

AttemptResults ==
    { ConnectionFailure,
      Answer(200, FALSE), Answer(404, FALSE), Answer(404, TRUE),
      Answer(403, FALSE), Answer(429, FALSE), Answer(429, TRUE) }

\* the body of _rate_limited_get up to session.get, on a session whose
\* headers are base: the headers are merged and the request is handed over
EnterGet(a, base) ==
    /\ get_args' = <<a>>
    /\ session_headers_copy' = MergedHeaders(base, a.headers, a.host)
    /\ retries_total' = MAX_RETRIES
    /\ attempt_log' = <<>>
    /\ tr_pc' = "sending"

\* an operation of a constructed client calls _rate_limited_get
RateLimitedGet(a) ==
    /\ tr_pc = "idle"
    /\ init_pc = "ready"
    /\ EnterGet(a, session_headers[1])
    /\ session_headers' = <<SessionHeadersAfter(session_headers[1], a.headers, a.host)>>
    /\ UNCHANGED <<wire, get_outcome, init_pc, init_args, user_agent, directory>>
    /\ UNCHANGED <<clientVars, resolveVars, netVars, aggVars, dlVars, limVars, batchVars, parseVars>>

\* one attempt of the adapter: the request goes out, and the Retry object
\* decides between another attempt, MaxRetryError and the response; a
\* response that comes back goes through raise_for_status
AttemptWith(results) ==
    /\ tr_pc = "sending"
    /\ \E r \in results :
         LET url == get_args[1].url
             retried == r.kind = "error"
                        \/ is_retry(retries_total, r.status_code, r.retry_after)
         IN  /\ attempt_log' = Append(attempt_log, r)
             /\ wire' = Append(wire, [op |-> get_args[1].op, via |-> "_rate_limited_get"])
             /\ IF retried
                THEN IF is_exhausted(retries_total - 1)
                     THEN /\ tr_pc' = "raised"
                          /\ get_outcome' =
                                 <<IF r.kind = "error"
                                   THEN TransportError("ConnectionError", "MaxRetryError",
                                                       <<>>, <<>>)
                                   ELSE TransportError("RetryError", "MaxRetryError",
                                                       <<>>, <<>>)>>
                          /\ UNCHANGED retries_total
                     ELSE /\ retries_total' = retries_total - 1
                          /\ UNCHANGED <<tr_pc, get_outcome>>
                ELSE /\ UNCHANGED retries_total
                     /\ IF r.status_code >= 400 /\ r.status_code < 600
                        THEN /\ tr_pc' = "raised"
                             /\ get_outcome' = <<TransportError("EdgarAPIError", "HTTPError",
                                                                <<r.status_code>>, <<url>>)>>
                        ELSE /\ tr_pc' = "returned"
                             /\ get_outcome' = <<TransportResponse(r.status_code, url)>>
    /\ UNCHANGED <<get_args, session_headers_copy, sessVars>>
    /\ UNCHANGED <<clientVars, resolveVars, netVars, aggVars, dlVars, limVars, batchVars, parseVars>>

Attempt == AttemptWith(AttemptResults)

-----------------------------------------------------------------------------
(***************************************************************************)
(* The operations of the client and the request each issues.  The queries  *)
(* and downloads call self._rate_limited_get; the two feed subscriptions   *)
(* call requests.get themselves.                                           *)
(***************************************************************************)
URL_CIK_MAPPING                  == <<"m">>
URL_XBRL_COMPANY_CONCEPTS(cik)   == <<"c", "/">> \o cik
URL_XBRL_COMPANY_FACTS(cik)      == <<"x", "/">> \o cik
URL_XBRL_FRAMES                  == <<"r">>
URL_XBRL_COMPANY_FACTS_ZIP       == <<"z", "f">>
URL_XBRL_COMPANY_SUBMISSIONS_ZIP == <<"z", "s">>

\* a call of _rate_limited_get(url, headers, host) made by op
GetCall(op, url, headers, host) ==
    [op |-> op, url |-> url, headers |-> headers, host |-> host]

\* the calls the operations of the client make
OperationCalls ==
    { GetCall("get_submissions_by_company", URL_SUBMISSIONS(CompanyCik), <<>>, <<>>),
      GetCall("get_concept_by_company", URL_XBRL_COMPANY_CONCEPTS(CompanyCik), <<>>, <<>>),
      GetCall("get_facts_by_company", URL_XBRL_COMPANY_FACTS(CompanyCik), <<>>, <<>>),
      GetCall("get_frames", URL_XBRL_FRAMES, <<>>, <<>>),
      GetCall("aggregate_forms_to_download", URL_SUBMISSIONS(CompanyCik), <<>>, <<>>),
      GetCall("fetch_and_save_filings",
              URL_FILING(<<"1", "2">>, <<"0", "1">>, PrimaryDoc), <<>>, <<HOST_WWW_SEC>>),
      GetCall("get_ticker_cik_name_mapping", URL_CIK_MAPPING, <<>>, <<HOST_WWW_SEC>>),
      GetCall("download_facts_of_all_companies_zip",
              URL_XBRL_COMPANY_FACTS_ZIP, <<>>, <<HOST_WWW_SEC>>),
      GetCall("download_submissions_of_all_companies_zip",
              URL_XBRL_COMPANY_SUBMISSIONS_ZIP, <<>>, <<HOST_WWW_SEC>>) }

\* the headers argument: None, an empty dict, a new key, another Host
HeaderArgs ==
    { <<>>,
      << <<>> >>,
      << << <<"Accept", <<"j">> >> >> >>,
      << << <<"Host", <<"e", "f", "t">> >>, <<"Accept-Encoding", <<"b", "r">> >> >> >> }

HostArgs == { <<>>, <<HOST_WWW_SEC>> }

\* _rate_limited_get called with headers and host of the caller's choice
DirectCalls ==
    { GetCall("caller", URL_XBRL_FRAMES, h, host) : h \in HeaderArgs, host \in HostArgs }

GetCalls == OperationCalls \cup DirectCalls

RssOperations == {"subscribe_to_rss_feed", "subscribe_rss_feeds"}

MaxPolls == 1

\* one turn of the polling loop of a feed subscription
RssPoll(op) ==
    /\ tr_pc = "idle"
    /\ init_pc = "ready"
    /\ Len(wire) < MaxPolls
    /\ wire' = Append(wire, [op |-> op, via |-> "requests.get"])
    /\ UNCHANGED <<tr_pc, get_args, session_headers_copy, retries_total, attempt_log,
                   get_outcome, sessVars>>
    /\ UNCHANGED <<clientVars, resolveVars, netVars, aggVars, dlVars, limVars, batchVars, parseVars>>

\* a constructed client: its user agent and the session of BaseClient.__init__
ClientUserAgent == <<"C", "o", " ", "a", "@", "b">>

InitSession(ua) ==
    /\ init_pc = "ready"
    /\ init_args = <<>>
    /\ user_agent = <<ua>>
    /\ session_headers = <<BaseSessionHeaders(ua)>>
    /\ directory = <<>>

InitTransport ==
    /\ InitClient(DefaultDirectory)
    /\ resolved = <<>>
    /\ IdleCalls
    /\ IdleNet
    /\ IdleAgg
    /\ IdleDl
    /\ IdleLim
    /\ InitSession(ClientUserAgent)
    /\ IdleTransport
    /\ IdleBatch
    /\ IdleParse

NextTransport ==
    \/ \E a \in GetCalls : RateLimitedGet(a)
    \/ Attempt
    \/ \E op \in RssOperations : RssPoll(op)

SpecTransport == InitTransport /\ [][NextTransport]_vars

-----------------------------------------------------------------------------
(***************************************************************************)
(* SpecSession: a constructed client makes several calls of                *)
(* _rate_limited_get one after the other, some with per-call headers or a  *)
(* per-call host and some without; each request gets its answer at once.   *)
(***************************************************************************)
MaxGets == 3

\* the call without headers and host, and the calls that give one of them
SessionCalls ==
    { GetCall("get_frames", URL_XBRL_FRAMES, <<>>, <<>>) } \cup
    { c \in DirectCalls : c.headers # <<>> \/ c.host # <<>> }

\* answers that end the request at the first attempt
FinalAnswers == { Answer(200, FALSE), Answer(404, FALSE) }

\* _rate_limited_get has returned or raised: the client is free for its
\* next call
GetEnds ==
    /\ tr_pc \in {"returned", "raised"}
    /\ Len(wire) < MaxGets
    /\ tr_pc' = "idle"
    /\ UNCHANGED <<get_args, session_headers_copy, retries_total, attempt_log, wire,
                   get_outcome, sessVars>>
    /\ UNCHANGED <<clientVars, resolveVars, netVars, aggVars, dlVars, limVars, batchVars, parseVars>>

NextSession ==
    \/ \E a \in SessionCalls : RateLimitedGet(a)
    \/ AttemptWith(FinalAnswers)
    \/ GetEnds

SpecSession == InitTransport /\ [][NextSession]_vars

\* C35: whatever calls were made before, with per-call headers or a
\* per-call host, the headers of the session are those the constructor set,
\* Host HOST_DATA_SEC included, and a call without headers and host is sent
\* with exactly them.
C35_OverridesLeaveSession ==
    /\ session_headers = <<BaseSessionHeaders(user_agent[1])>>
    /\ DictGet(session_headers[1], "Host") = HOST_DATA_SEC
    /\ (tr_pc # "idle" /\ get_args[1].headers = <<>> /\ get_args[1].host = <<>>)
           => session_headers_copy = BaseSessionHeaders(user_agent[1])

\* a call that gave headers or a host has ended, and the call without them
\* that followed was sent and answered
C35_Witness ==
    /\ Len(wire) = 2
    /\ wire[1].op = "caller"
    /\ wire[2].op = "get_frames"
    /\ tr_pc = "returned"
    /\ get_args[1].headers = <<>>
    /\ get_args[1].host = <<>>
    /\ DictGet(session_headers_copy, "Host") = HOST_DATA_SEC

-----------------------------------------------------------------------------
(***************************************************************************)
(* The errors of the transport.                                            *)
(***************************************************************************)
\* C11: every failure of _rate_limited_get reaches the caller as an
\* EdgarAPIError that carries the origin, the status code (if a response
\* came) and the URL of the request.
C11_FailuresAreEdgarAPIError ==
    tr_pc = "raised"
        => /\ get_outcome[1].exc = "EdgarAPIError"
           /\ get_outcome[1].url = <<get_args[1].url>>
           /\ (attempt_log[Len(attempt_log)].kind = "response"
                  => get_outcome[1].status_code
                         = <<attempt_log[Len(attempt_log)].status_code>>)


\* the transient status codes of the retry policy, as the claim names them
RetrySet == {403, 500, 502, 503, 504}

\* attempt i of the running request was followed by another attempt
Retried(i) == i < Len(attempt_log)

\* every attempt so far met a status of the retry set
AllTransient ==
    \A i \in 1..Len(attempt_log) :
        attempt_log[i].kind = "response" /\ attempt_log[i].status_code \in RetrySet

\* the bounded part of the retry claim: at most MAX_RETRIES retries, then
\* the request is over, and over with an error when every attempt met a
\* transient status
RetriesBounded ==
    /\ Len(attempt_log) <= MAX_RETRIES + 1
    /\ Len(attempt_log) = MAX_RETRIES + 1 => tr_pc \in {"raised", "returned"}
    /\ (tr_pc \in {"raised", "returned"} /\ AllTransient)
           => (tr_pc = "raised" /\ ~get_outcome[1].ok)

\* C12 as stated: a request that keeps meeting a transient status is
\* retried at most MAX_RETRIES times and then ends in an error, and a
\* status code outside the retry set is never retried.
C12_OnlyRetrySetRetried ==
    /\ RetriesBounded
    /\ \A i \in 1..Len(attempt_log) :
           (Retried(i) /\ attempt_log[i].kind = "response")
               => attempt_log[i].status_code \in RetrySet

\* C12 amended: a request that keeps meeting a transient status is retried
\* at most MAX_RETRIES times and then ends in an error; a response is
\* retried only when its status is in the retry set or it is a 413, 429 or
\* 503 that carries a Retry-After header.
C12_RetrySetOrRetryAfter ==
    /\ RetriesBounded
    /\ \A i \in 1..Len(attempt_log) :
           (Retried(i) /\ attempt_log[i].kind = "response")
               => \/ attempt_log[i].status_code \in RetrySet
                  \/ (attempt_log[i].retry_after
                        /\ attempt_log[i].status_code \in {413, 429, 503})

\* every attempt met 403 and the request ended with the retry ceiling reached
C12_Witness ==
    /\ tr_pc = "raised"
    /\ Len(attempt_log) = MAX_RETRIES + 1
    /\ \A i \in 1..Len(attempt_log) : attempt_log[i] = Answer(403, FALSE)
    /\ get_outcome[1].exc = "RetryError"


\* C13: every request an operation of the client sends goes out through
\* _rate_limited_get.
C13_AllThroughTransport ==
    \A i \in 1..Len(wire) : wire[i].via = "_rate_limited_get"


-----------------------------------------------------------------------------
(***************************************************************************)
(* The headers of a request.                                               *)
(***************************************************************************)
\* the per-call headers of a call, {} when it gives none
GivenHeaders(a) == IF a.headers = <<>> THEN <<>> ELSE a.headers[1]

\* C14: the headers sent are the headers of the session overridden key by
\* key by the per-call headers, and a call that names a host sends that
\* host in its Host header, also when it gives per-call headers (that do
\* not set Host themselves).
C14_HeadersMerged ==
    get_args # <<>> =>
        LET a     == get_args[1]
            base  == session_headers[1]
            given == GivenHeaders(a)
            sent  == session_headers_copy
        IN  /\ DictKeys(sent) = DictKeys(base) \cup DictKeys(given)
            /\ \A k \in DictKeys(given) : DictGet(sent, k) = DictGet(given, k)
            /\ \A k \in DictKeys(base) \ DictKeys(given) :
                   (k # "Host" \/ a.host = <<>>) => DictGet(sent, k) = DictGet(base, k)
            /\ (a.host # <<>> /\ "Host" \notin DictKeys(given))
                   => DictGet(sent, "Host") = a.host[1]


-----------------------------------------------------------------------------
(***************************************************************************)
(* EdgarClient.__init__: the user agent and its check, BaseClient.__init__ *)
(* (the session), then the directory load of get_ticker_cik_name_mapping.  *)
(*   init_pc = "new"      not constructed yet                              *)
(*   init_pc = "loading"  in the request of the directory                  *)
(*   init_pc = "ready"    constructed                                      *)
(*   init_pc = "raised"   the constructor raised                           *)
(***************************************************************************)
\* f"{company_name} {email_address}"
UserAgentOf(company_name, email_address) == company_name \o <<" ">> \o email_address

\* `not self.user_agent`
UserAgentRejected(ua) == ua = <<>>

EdgarClient_init(company_name, email_address) ==
    /\ init_pc = "new"
    /\ init_args' = <<[company_name |-> company_name, email_address |-> email_address]>>
    /\ LET ua == UserAgentOf(company_name, email_address)
       IN  /\ user_agent' = <<ua>>
           /\ IF UserAgentRejected(ua)
              THEN /\ init_pc' = "raised"
                   /\ get_outcome' = <<TransportError("ValueError", "ValueError", <<>>, <<>>)>>
                   /\ UNCHANGED <<session_headers, tr_pc, get_args, session_headers_copy,
                                  retries_total, attempt_log>>
              ELSE /\ session_headers' =
                          <<SessionHeadersAfter(BaseSessionHeaders(ua), <<>>, <<HOST_WWW_SEC>>)>>
                   /\ init_pc' = "loading"
                   /\ EnterGet(GetCall("get_ticker_cik_name_mapping", URL_CIK_MAPPING,
                                       <<>>, <<HOST_WWW_SEC>>),
                               BaseSessionHeaders(ua))
                   /\ UNCHANGED get_outcome
    /\ UNCHANGED <<wire, directory>>
    /\ UNCHANGED <<clientVars, resolveVars, netVars, aggVars, dlVars, limVars, batchVars, parseVars>>

\* the request of the directory is over: the mappings are built from the
\* answer, or the exception leaves the constructor
FinishInit ==
    /\ init_pc = "loading"
    /\ tr_pc \in {"returned", "raised"}
    /\ IF tr_pc = "raised"
       THEN /\ init_pc' = "raised"
            /\ UNCHANGED <<clientVars, directory, get_outcome>>
       ELSE \E full \in Directories, field \in LackingFields :
              LET dir == DirectoryAnswer(full, field)
                  m   == get_ticker_cik_name_mapping(dir)
              IN  /\ directory' = <<dir>>
                  /\ IF m.ok
                     THEN /\ ticker_to_cik_mapping' = m.value.ticker_to_cik
                          /\ cik_to_ticker_mapping' = m.value.cik_to_ticker
                          /\ cik_to_name' = m.value.cik_to_name
                          /\ init_pc' = "ready"
                          /\ UNCHANGED get_outcome
                     ELSE /\ init_pc' = "raised"
                          /\ get_outcome' = <<TransportError(m.exc, m.exc, <<>>, <<>>)>>
                          /\ UNCHANGED clientVars
    /\ UNCHANGED <<init_args, user_agent, session_headers>>
    /\ UNCHANGED <<tr_pc, get_args, session_headers_copy, retries_total, attempt_log, wire>>
    /\ UNCHANGED <<resolveVars, netVars, aggVars, dlVars, limVars, batchVars, parseVars>>

CompanyNames   == { <<>>, <<"C", "o">>, <<" ">> }
EmailAddresses == { <<>>, <<"a", "@", "b">> }

InitConstruct ==
    /\ ticker_to_cik_mapping = <<>>
    /\ cik_to_ticker_mapping = <<>>
    /\ cik_to_name = <<>>
    /\ resolved = <<>>
    /\ IdleCalls
    /\ IdleNet
    /\ IdleAgg
    /\ IdleDl
    /\ IdleLim
    /\ init_pc = "new"
    /\ init_args = <<>>
    /\ user_agent = <<>>
    /\ session_headers = <<>>
    /\ directory = <<>>
    /\ IdleTransport
    /\ IdleBatch
    /\ IdleParse

Construct == \E n \in CompanyNames, e \in EmailAddresses : EdgarClient_init(n, e)

NextConstruct == Construct \/ Attempt \/ FinishInit

SpecConstruct == InitConstruct /\ [][NextConstruct]_vars

\* C15: constructing a client with an empty company name and an empty email
\* address fails validation, with no session created and no request sent.
C15_EmptyIdentityRejected ==
    (init_args # <<>> /\ init_args[1].company_name = <<>>
                      /\ init_args[1].email_address = <<>>)
        => /\ init_pc = "raised"
           /\ session_headers = <<>>
           /\ wire = <<>>

\* the directory the constructor was answered with lacks one of the columns
\* get_ticker_cik_name_mapping looks up
DirectoryLacks(fields) ==
    directory # <<>> /\ \E f \in fields : Index(directory[1].fields, f) = 0

\* C24: when the directory answer has no `cik` (or `ticker`, or `name`)
\* field, the load fails with a ValueError, the error of the validators,
\* and none of the three mappings of the client is populated.
C24_MissingFieldFailsLoad ==
    DirectoryLacks({"cik", "ticker", "name"}) =>
        /\ init_pc = "raised"
        /\ get_outcome = <<TransportError("ValueError", "ValueError", <<>>, <<>>)>>
        /\ ticker_to_cik_mapping = <<>>
        /\ cik_to_ticker_mapping = <<>>
        /\ cik_to_name = <<>>

\* the constructor was answered with a directory of two rows without `cik`
C24_Witness ==
    /\ DirectoryLacks({"cik"})
    /\ Len(directory[1].data) = 2
    /\ init_pc = "raised"

\* the cell of row td under field, and the padded identifier of the row
Cell(td, field) == td[Index(directory[1].fields, field)]
PaddedCik(td)   == Zfill(IntToStr(Cell(td, "cik")), CIK_LENGTH)

\* the upper-cased tickers of the rows of the company of td
TickersOf(td) ==
    { Upper(Cell(directory[1].data[i], "ticker")) :
        i \in { j \in 1..Len(directory[1].data) :
                  Cell(directory[1].data[j], "cik") = Cell(td, "cik") } }

\* the two symbol mappings are as the rows of the directory say
SymbolMappingsLoaded ==
    \A i \in 1..Len(directory[1].data) :
        LET td == directory[1].data[i]
        IN  /\ Upper(Cell(td, "ticker")) \in DictKeys(ticker_to_cik_mapping)
            /\ DictGet(ticker_to_cik_mapping, Upper(Cell(td, "ticker"))) = PaddedCik(td)
            /\ PaddedCik(td) \in DictKeys(cik_to_ticker_mapping)
            /\ DictGet(cik_to_ticker_mapping, PaddedCik(td)) \in TickersOf(td)

\* the display-name mapping is as the rows of the directory say
NameMappingLoaded ==
    \A i \in 1..Len(directory[1].data) :
        LET td == directory[1].data[i]
        IN  /\ PaddedCik(td) \in DictKeys(cik_to_name)
            /\ DictGet(cik_to_name, PaddedCik(td)) = Cell(td, "name")

\* C25: after the load, for every row (cik, ticker, name) of the directory,
\* the upper-cased ticker maps to the 10-digit zero-padded cik, that cik maps
\* back to a ticker of the company, and that cik maps to the display name of
\* the row.
C25_MappingsFollowRows ==
    init_pc = "ready" => (SymbolMappingsLoaded /\ NameMappingLoaded)

-----------------------------------------------------------------------------
(***************************************************************************)
(* The count fetch_and_save_filings returns.                               *)
(***************************************************************************)
\* a call of fetch_and_save_filings has its list
Saving == caller = "fetch_and_save_filings" /\ pc \in {"save", "save_detail", "done", "raised"}

RawPath(td) ==
    get_forms_save_location(meta, td.form, td.accession_number, FORM_FULL_SUBMISSION_FILENAME)

DetailPath(td) ==
    get_forms_save_location(meta, td.form, td.accession_number,
                            PRIMARY_DOC_FILENAME_STEM \o td.details_doc_suffix)

\* the artifacts filing td requires
RequiredPaths(td) ==
    {RawPath(td)} \cup (IF meta.download_details THEN {DetailPath(td)} ELSE {})

\* the requests filing td requires, in order
RequiredUris(td) ==
    <<td.raw_filing_uri>> \o (IF meta.download_details THEN <<td.primary_doc_uri>> ELSE <<>>)

RECURSIVE UrisOf(_)
UrisOf(tds) == IF tds = <<>> THEN <<>> ELSE RequiredUris(Head(tds)) \o UrisOf(Tail(tds))

\* the requests for filing documents among the requests made
FilingRequests == SelectSeq(requested, LAMBDA u : u[1] = "f")

\* C16: when fetch_and_save_filings returns n, exactly the first n filings
\* of the aggregator's list (all of them) have every required artifact
\* written; at any time the filings counted so far have all their artifacts
\* written and nothing is written beyond the filing in progress; the
\* documents are requested one filing at a time in the order of the list.
C16_CountIsWrittenFilings ==
    Saving =>
        /\ successfully_downloaded <= Len(filings_to_download)
        /\ \A i \in 1..successfully_downloaded :
               RequiredPaths(filings_to_download[i]) \subseteq written
        /\ \A i \in (successfully_downloaded + 2)..Len(filings_to_download) :
               RequiredPaths(filings_to_download[i]) \cap written = {}
        /\ IsPrefix(FilingRequests, UrisOf(filings_to_download))
        /\ (pc = "done" =>
               /\ outcome[1] = Ok(successfully_downloaded)
               /\ successfully_downloaded = Len(filings_to_download)
               /\ written = UNION {RequiredPaths(filings_to_download[i]) :
                                       i \in 1..successfully_downloaded}
               /\ FilingRequests = UrisOf(filings_to_download))

\* two filings were saved with their detail documents and 2 was returned
C16_Witness ==
    /\ Saving
    /\ pc = "done"
    /\ meta.download_details
    /\ outcome[1] = Ok(2)
    /\ Cardinality(written) = 4


\* C32: the lower bound of the window download_forms_by_company hands on is
\* DEFAULT_AFTER_DATE when no after date is given and the parsed after date
\* itself when one is given; an after date earlier than DEFAULT_AFTER_DATE
\* is accepted whenever the same call without an after date is.
C32_AfterDateNotClamped ==
    dl_args # <<>> =>
        LET a      == dl_args[1]
            parsed == Strptime(a.after[1])
        IN  /\ (caller = "fetch_and_save_filings" =>
                   meta.after = IF a.after = <<>> THEN DEFAULT_AFTER_DATE ELSE parsed.value)
            /\ (/\ a.after # <<>>
                /\ parsed.ok
                /\ parsed.value < DEFAULT_AFTER_DATE
                /\ DownloadMetadata([a EXCEPT !.after = <<>>], ticker_to_cik_mapping,
                                    cik_to_ticker_mapping).ok
                => caller = "fetch_and_save_filings")

\* a download with an after date before DEFAULT_AFTER_DATE saved a filing
C32_Witness ==
    /\ dl_args # <<>>
    /\ dl_args[1].after # <<>>
    /\ caller = "fetch_and_save_filings"
    /\ meta.after < DEFAULT_AFTER_DATE
    /\ pc = "done"
    /\ outcome[1].ok
    /\ outcome[1].value >= 1

\* the for loop of fetch_and_save_filings is at a filing
AtFiling == pc \in {"save", "save_detail"} /\ td_pos <= Len(filings_to_download)

\* C31: a failed request or write on the filing the loop is at ends the call
\* with that exception and without a count; the step writes nothing and
\* removes nothing, so the artifacts of the filings before it, and its own
\* raw submission when the failure is on the primary document, are on disk;
\* no document of a later filing was requested or written, and nothing
\* happens after the exception.  A step that does not fail has written its
\* document.
C31_SaveFailurePropagates ==
    [][/\ pc # "raised"
       /\ AtFiling =>
            LET td == filings_to_download[td_pos]
            IN  IF pc' = "raised"
                THEN /\ ~outcome'[1].ok
                     /\ outcome'[1].exc \in {"EdgarAPIError", "OSError"}
                     /\ written' = written
                     /\ \A i \in 1..(td_pos - 1) :
                            RequiredPaths(filings_to_download[i]) \subseteq written'
                     /\ (pc = "save_detail" => RawPath(td) \in written')
                     /\ \A i \in (td_pos + 1)..Len(filings_to_download) :
                            RequiredPaths(filings_to_download[i]) \cap written' = {}
                     /\ IsPrefix(FilingRequests',
                                 UrisOf(SubSeq(filings_to_download, 1, td_pos)))
                     /\ <<td_pos, successfully_downloaded>>' = <<td_pos, successfully_downloaded>>
                ELSE /\ outcome' = outcome
                     /\ (IF pc = "save" THEN RawPath(td) ELSE DetailPath(td)) \in written'
      ]_vars

\* the primary document of the second filing failed: the first filing's
\* two artifacts and the second's raw submission are on disk
C31_Witness ==
    /\ Saving
    /\ pc = "raised"
    /\ td_pos = 2
    /\ Len(filings_to_download) >= 2
    /\ Cardinality(written) = 3
    /\ RawPath(filings_to_download[2]) \in written

-----------------------------------------------------------------------------
(***************************************************************************)
(* EdgarClient.download_forms_for_companies and                            *)
(* download_facts_for_companies: one action per turn of the for loop over  *)
(* tickers_or_ciks.  batch_args.meets[i] is what the archive and the disk  *)
(* do for company i once its requests and writes are made.                 *)
(***************************************************************************)
\* the methods of EdgarClient and its bases
EdgarClientMethods ==
    { "get_submissions_by_company", "get_concept_by_company", "get_facts_by_company",
      "get_frames", "download_forms_by_company", "download_facts_for_companies",
      "download_forms_for_companies", "subscribe_to_rss_feed", "subscribe_rss_feeds",
      "download_facts_of_all_companies_zip", "download_submissions_of_all_companies_zip",
      "_parse_open_json", "get_path_to_latest_facts_zip", "parse_all_facts_in_latest_zip",
      "parse_facts_json", "query_fact_from_zip", "_rate_limited_get",
      "aggregate_forms_to_download", "fetch_and_save_filings",
      "get_ticker_cik_name_mapping", "get_ticker_dataframe" }

\* the classes `except Exception` catches among the exceptions of a turn
ExceptionClasses ==
    { "ValueError", "AttributeError", "EdgarAPIError", "ConnectionError", "OSError",
      "KeyError", "JSONDecodeError" }

\* `except Exception as e:`
Caught_value_error_only(exc) == exc = "ValueError"

Caught_os_error_only(exc) == exc = "OSError"

Caught(exc) == exc \in ExceptionClasses

\* self.<name>(...) for a company that meets m: AttributeError when the
\* client has no such method, else what the call meets
MethodCall(name, m) ==
    IF name \notin EdgarClientMethods THEN Raise("AttributeError", name)
    ELSE IF m = "ok" THEN Ok(0)
    ELSE IF m = "request fails" THEN Raise("EdgarAPIError", m)
    ELSE Raise("OSError", m)

\* [f'{ticker_name}-{form_type}' for form_type in form_types]
FormLabels(ticker_name, form_types) ==
    [i \in 1..Len(form_types) |-> ticker_name \o <<"-">> \o form_types[i]]

\* one turn of a batch loop ends in: the lists as they are now, or the
\* exception that left the call
TurnDone(saved, skipped) == [raised |-> <<>>, saved |-> saved, skipped |-> skipped]
TurnRaised(exc)          == [raised |-> <<exc>>, saved |-> batch_saved, skipped |-> batch_skipped]

\* a handler: the lists after it when the exception is caught
Handle(exc, saved, skipped) == IF Caught(exc) THEN TurnDone(saved, skipped) ELSE TurnRaised(exc)

\* download_forms_for_companies, the turn for ticker_or_cik
FormsTurn(ticker_or_cik, form_types, m) ==
    LET cik == validate_and_return_cik(ticker_or_cik, ticker_to_cik_mapping)
    IN  IF ~cik.ok
        THEN Handle(cik.exc, batch_saved, batch_skipped)
        ELSE LET ticker_name == DictGet(cik_to_ticker_mapping, cik.value)
                 labels      == FormLabels(ticker_name, form_types)
                 n_saved     == MethodCall("download_forms", m)
             IN  IF UnsupportedForms(form_types) # <<>>
                 THEN TurnDone(batch_saved, batch_skipped)
                 ELSE IF n_saved.ok
                      THEN TurnDone(batch_saved \o labels, batch_skipped)
                      ELSE Handle(n_saved.exc, batch_saved, batch_skipped \o labels)

\* download_facts_for_companies, the turn for ticker_or_cik: the lists and
\* the facts files after it
FactsTurn(ticker_or_cik, skip_if_exists, m) ==
    LET cik == validate_and_return_cik(ticker_or_cik, ticker_to_cik_mapping)
    IN  IF ~cik.ok
        THEN [turn  |-> Handle(cik.exc, batch_saved, Append(batch_skipped, ticker_or_cik)),
              files |-> facts_files]
        ELSE LET ticker_name == DictGet(cik_to_ticker_mapping, cik.value)
                 values      == MethodCall("get_facts_by_company",
                                           IF m = "request fails" THEN m ELSE "ok")
                 skippedT    == Append(batch_skipped, ticker_name)
             IN  IF skip_if_exists /\ ticker_name \in facts_files
                 THEN [turn |-> TurnDone(batch_saved, batch_skipped), files |-> facts_files]
                 ELSE IF ~values.ok
                 THEN [turn  |-> Handle(values.exc, batch_saved, skippedT),
                       files |-> facts_files]
                 ELSE IF m = "open fails"
                 THEN [turn  |-> Handle("OSError", batch_saved, skippedT),
                       files |-> facts_files]
                 ELSE IF m = "dump fails"
                 THEN [turn  |-> Handle("OSError", batch_saved, skippedT),
                       files |-> facts_files \cup {ticker_name}]
                 ELSE [turn  |-> TurnDone(Append(batch_saved, ticker_name), batch_skipped),
                       files |-> facts_files \cup {ticker_name}]

\* the lists of a turn are taken over, or the exception leaves the batch call
EndTurn(turn) ==
    IF turn.raised # <<>>
    THEN /\ batch_pc' = "raised"
         /\ UNCHANGED <<batch_pos, batch_saved, batch_skipped>>
    ELSE /\ batch_saved' = turn.saved
         /\ batch_skipped' = turn.skipped
         /\ batch_pos' = batch_pos + 1
         /\ UNCHANGED batch_pc

BatchRunning(op) ==
    /\ batch_pc = "running"
    /\ batch_args[1].op = op
    /\ batch_pos <= Len(batch_args[1].tickers_or_ciks)

FormsCompany ==
    /\ BatchRunning("download_forms_for_companies")
    /\ EndTurn(FormsTurn(batch_args[1].tickers_or_ciks[batch_pos],
                         batch_args[1].form_types, batch_args[1].meets[batch_pos]))
    /\ UNCHANGED <<batch_args, facts_files>>
    /\ UNCHANGED <<clientVars, resolveVars, netVars, aggVars, dlVars, limVars, sessVars, trVars, parseVars>>

FactsCompany ==
    /\ BatchRunning("download_facts_for_companies")
    /\ LET t == FactsTurn(batch_args[1].tickers_or_ciks[batch_pos],
                          batch_args[1].skip_if_exists, batch_args[1].meets[batch_pos])
       IN  /\ EndTurn(t.turn)
           /\ facts_files' = t.files
    /\ UNCHANGED batch_args
    /\ UNCHANGED <<clientVars, resolveVars, netVars, aggVars, dlVars, limVars, sessVars, trVars, parseVars>>

\* `return forms_saved, forms_skipped` / `return ticker_facts_saved, ticker_facts_skipped`
BatchReturn ==
    /\ batch_pc = "running"
    /\ batch_pos > Len(batch_args[1].tickers_or_ciks)
    /\ batch_pc' = "returned"
    /\ UNCHANGED <<batch_args, batch_pos, batch_saved, batch_skipped, facts_files>>
    /\ UNCHANGED <<clientVars, resolveVars, netVars, aggVars, dlVars, limVars, sessVars, trVars, parseVars>>

\* the batch call: the two lists start empty
BatchCall(a) ==
    /\ batch_pc = "idle"
    /\ batch_args' = <<a>>
    /\ batch_pos' = 1
    /\ batch_saved' = <<>>
    /\ batch_skipped' = <<>>
    /\ batch_pc' = "running"
    /\ UNCHANGED facts_files
    /\ UNCHANGED <<clientVars, resolveVars, netVars, aggVars, dlVars, limVars, sessVars, trVars, parseVars>>


MaxBatch == 2

BatchCompanies == { <<"a", "b">>, <<"b">>, <<"1", "2">>, <<"k">> }

FormsMeets == { "ok", "request fails", "write fails" }
FactsMeets == { "ok", "request fails", "open fails", "dump fails" }

\* the batch calls over k companies
BatchArgs(k) ==
    { [op |-> "download_forms_for_companies", tickers_or_ciks |-> t, form_types |-> f,
       skip_if_exists |-> TRUE, meets |-> m] :
          t \in [1..k -> BatchCompanies], f \in FormArgs, m \in [1..k -> FormsMeets] }
    \cup
    { [op |-> "download_facts_for_companies", tickers_or_ciks |-> t, form_types |-> <<>>,
       skip_if_exists |-> s, meets |-> m] :
          t \in [1..k -> BatchCompanies], s \in BOOLEAN, m \in [1..k -> FactsMeets] }

InitBatch ==
    /\ InitClient(DefaultDirectory)
    /\ resolved = <<>>
    /\ IdleCalls
    /\ IdleNet
    /\ IdleAgg
    /\ IdleDl
    /\ IdleLim
    /\ IdleSession
    /\ IdleTransport
    /\ IdleParse
    /\ batch_pc = "idle"
    /\ batch_args = <<>>
    /\ batch_pos = 0
    /\ batch_saved = <<>>
    /\ batch_skipped = <<>>
    /\ facts_files \in SUBSET DictKeys(ticker_to_cik_mapping)

Batch == batch_pc = "idle" /\ \E k \in 0..MaxBatch : \E a \in BatchArgs(k) : BatchCall(a)

NextBatch == Batch \/ FormsCompany \/ FactsCompany \/ BatchReturn

SpecBatch == InitBatch /\ [][NextBatch]_vars

\* the batch call in progress, its input list and the company of this turn
BatchOp      == batch_args[1].op
BatchInput   == batch_args[1].tickers_or_ciks
BatchForms   == batch_args[1].form_types
BatchCik(i)  == validate_and_return_cik(BatchInput[i], ticker_to_cik_mapping)
BatchTicker(i) == DictGet(cik_to_ticker_mapping, BatchCik(i).value)

\* C17: download_forms_for_companies and download_facts_for_companies never
\* raise because of one company: while the loop has a company left, the step
\* leaves the call running and moves on to the next company of the input
\* list, and after the last company the call returns its two lists.
C17_FailureNeverAborts ==
    [][ batch_pc = "running" =>
          IF batch_pos <= Len(BatchInput)
          THEN batch_pc' = "running" /\ batch_pos' = batch_pos + 1
          ELSE batch_pc' = "returned" /\ batch_saved' = batch_saved
                                      /\ batch_skipped' = batch_skipped ]_vars

\* a facts batch returned after its first company's save failed and its
\* second company was saved
C17_Witness ==
    /\ batch_pc = "returned"
    /\ BatchOp = "download_facts_for_companies"
    /\ Len(BatchInput) = 2
    /\ batch_args[1].meets[1] = "dump fails"
    /\ BatchCik(1).ok /\ BatchCik(2).ok
    /\ batch_skipped = <<BatchTicker(1)>>
    /\ batch_saved = <<BatchTicker(2)>>

\* the number of places of seq that hold x
CountIn(seq, x) == Cardinality({i \in 1..Len(seq) : seq[i] = x})

\* the (company, form type) pairs of the input, as the returned lists name
\* them: the resolved ticker where the company resolves, the input otherwise
InputLabel(i, form_type) ==
    (IF BatchCik(i).ok THEN BatchTicker(i) ELSE BatchInput[i]) \o <<"-">> \o form_type

InputPairs == (1..Len(BatchInput)) \X (1..Len(BatchForms))

\* how many input pairs carry the label of pair p
PairsLabelled(label) ==
    Cardinality({p \in InputPairs : InputLabel(p[1], BatchForms[p[2]]) = label})

\* C18: when download_forms_for_companies returns, every (company, form
\* type) pair of the input is recorded in exactly one of the two returned
\* lists, companies that fail resolution or ask for an unsupported form
\* included.
C18_EveryPairRecordedOnce ==
    (batch_pc = "returned" /\ BatchOp = "download_forms_for_companies") =>
        \A p \in InputPairs :
            LET label == InputLabel(p[1], BatchForms[p[2]])
            IN  CountIn(batch_saved, label) + CountIn(batch_skipped, label)
                    = PairsLabelled(label)

\* C19: in download_forms_for_companies a company that resolves, asks only
\* for supported forms and meets no download error is in the succeeded list
\* once per requested form type and not in the skipped list.
C19_CleanCompanySucceeds ==
    (batch_pc = "returned" /\ BatchOp = "download_forms_for_companies") =>
        \A i \in 1..Len(BatchInput) :
            ( /\ BatchCik(i).ok
              /\ UnsupportedForms(BatchForms) = <<>>
              /\ \A j \in 1..Len(BatchInput) :
                    (BatchCik(j).ok /\ BatchTicker(j) = BatchTicker(i))
                        => batch_args[1].meets[j] = "ok" )
            => \A k \in 1..Len(BatchForms) :
                  LET label == InputLabel(i, BatchForms[k])
                  IN  /\ CountIn(batch_saved, label) >= 1
                      /\ CountIn(batch_skipped, label) = 0


-----------------------------------------------------------------------------
(***************************************************************************)
(* EdgarClient.parse_all_facts_in_latest_zip: Pool.map hands every .json   *)
(* member of the latest zip to a worker running _parse_open_json.  A       *)
(* worker takes two steps, so that the test of os.path.exists and the      *)
(* write of another worker can fall between them.  What a member's         *)
(* document holds, and what to_pickle meets for it, belong to the archive  *)
(* and the output directory: they are the same in every run.               *)
(***************************************************************************)
MaxMembers == 2
MaxRuns    == 2

\* a member: whether its name ends in .json, what its document holds, the
\* value of data['cik'], and what to_pickle meets
Member(filename, doc, cik, pickle) ==
    [filename |-> filename, doc |-> doc, cik |-> cik, pickle |-> pickle]

ArchiveMembers ==
    { Member("json",  "tables",    <<"1", "2">>, "ok"),
      Member("json",  "tables",    <<"1", "0">>, "ok"),
      Member("json",  "tables",    <<"1", "2">>, "truncated"),
      Member("json",  "tables",    <<"1", "0">>, "refused"),
      Member("json",  "no units",  <<"1", "2">>, "ok"),
      Member("json",  "tables",    <<"7">>,      "ok"),
      Member("json",  "malformed", <<>>,         "ok"),
      Member("json",  "no cik",    <<>>,         "ok"),
      Member("json",  "no facts",  <<"1", "0">>, "ok"),
      Member("other", "tables",    <<"1", "0">>, "ok") }

\* os.path.exists(output_file_path)
PathExists_never(ticker, files) == FALSE

PathExists(ticker, files) == ticker \in files

\* _parse_open_json up to the test of the output path: the exception caught,
\* or the ticker of the output path
OpenMember_one_path(member, zip_dated, t2c, c2t) ==
    LET cik == validate_and_return_cik(member.cik, t2c)
    IN  IF member.doc \in {"malformed", "no cik"} \/ ~cik.ok
        THEN Raise("ValueError", "no identifier")
        ELSE Ok(c2t[1][2])

OpenMember(member, zip_dated, t2c, c2t) ==
    LET cik == validate_and_return_cik(member.cik, t2c)
    IN  IF member.doc = "malformed" THEN Raise("JSONDecodeError", "json.load")
        ELSE IF member.doc = "no cik" THEN Raise("KeyError", "cik")
        ELSE IF ~cik.ok THEN cik
        ELSE IF ~zip_dated THEN Raise("AttributeError", "group")
        ELSE Ok(DictGet(c2t, cik.value))

\* the rest of _parse_open_json: the table is built and pickled
BuildMember(member) ==
    IF member.doc = "no entityName" THEN Raise("KeyError", "entityName")
    ELSE IF member.doc = "no facts" THEN Raise("KeyError", "facts")
    ELSE IF member.doc = "no units" THEN Raise("ValueError", "No objects to concatenate")
    ELSE IF member.pickle = "refused" THEN Raise("OSError", "refused")
    ELSE IF member.pickle = "truncated" THEN Raise("OSError", "truncated")
    ELSE Ok("written")

\* what a worker ended in, as the log keeps it
ResultOf(r) == IF r.ok THEN r.value ELSE r.exc \o ": " \o r.msg

ZipMembers == latest_zip[1].members

TaskEnded(i) == task_pc[i] \in {"done", "not json"}

\* no exception has left a worker: p.map re-raises it in the caller and the
\* `with Pool` block terminates the pool
PoolAlive == \A j \in 1..Len(task_pc) : task_pc[j] # "raised"

\* `except Exception as e: ... return` around the worker's body: the error is
\* logged and the worker returns, or the exception leaves the worker
WorkerFails(i, r) ==
    IF Caught(r.exc)
    THEN /\ task_pc' = [task_pc EXCEPT ![i] = "done"]
         /\ parse_log' = parse_log \cup {<<parse_run, i, ResultOf(r)>>}
    ELSE /\ task_pc' = [task_pc EXCEPT ![i] = "raised"]
         /\ UNCHANGED parse_log

\* the 6 of `number_of_cores=cpu_count() - 6`
SafetyMargin == 6

\* the size of the pool Pool(processes) makes, or its ValueError
PoolOf(number_of_cores, cpus) ==
    LET processes == IF number_of_cores = <<>> THEN cpus - SafetyMargin
                     ELSE number_of_cores[1]
    IN  IF processes < 1
        THEN Raise("ValueError", "Number of processes must be at least 1")
        ELSE Ok(processes)

\* parse_all_facts_in_latest_zip(number_of_cores), <<>> for the default: the
\* .json members go to the pool, or Pool raises and no worker runs
ParseAll(number_of_cores) ==
    /\ latest_zip # <<>>
    /\ parse_run < MaxRuns
    /\ \A i \in 1..Len(task_pc) : TaskEnded(i)
    /\ LET p == PoolOf(number_of_cores, cpu_count)
       IN  IF p.ok
           THEN /\ parse_run' = parse_run + 1
                /\ pool_size' = p.value
                /\ task_pc' = [i \in 1..Len(ZipMembers) |->
                       IF ZipMembers[i].filename = "json" THEN "queued" ELSE "not json"]
           ELSE /\ pool_size' = 0
                /\ task_pc' = <<>>
                /\ UNCHANGED parse_run
    /\ UNCHANGED <<latest_zip, pkl_files, parse_log, cpu_count>>
    /\ UNCHANGED <<clientVars, resolveVars, netVars, aggVars, dlVars, limVars, sessVars,
                   trVars, batchVars>>

\* a free worker takes member i: lines 466-479
WorkerOpen(i) ==
    /\ i \in 1..Len(task_pc)
    /\ task_pc[i] = "queued"
    /\ PoolAlive
    /\ Cardinality({j \in 1..Len(task_pc) : task_pc[j] = "build"}) < pool_size
    /\ LET r == OpenMember(ZipMembers[i], latest_zip[1].dated,
                           ticker_to_cik_mapping, cik_to_ticker_mapping)
       IN  IF ~r.ok
           THEN WorkerFails(i, r)
           ELSE IF PathExists(r.value, pkl_files)
           THEN /\ task_pc' = [task_pc EXCEPT ![i] = "done"]
                /\ parse_log' = parse_log \cup {<<parse_run, i, "exists">>}
           ELSE /\ task_pc' = [task_pc EXCEPT ![i] = "build"]
                /\ UNCHANGED parse_log
    /\ UNCHANGED <<latest_zip, pkl_files, parse_run, pool_size, cpu_count>>
    /\ UNCHANGED <<clientVars, resolveVars, netVars, aggVars, dlVars, limVars, sessVars,
                   trVars, batchVars>>

\* the worker of member i builds and pickles its table: lines 480-503
WorkerWrite(i) ==
    /\ i \in 1..Len(task_pc)
    /\ task_pc[i] = "build"
    /\ PoolAlive
    /\ LET r      == BuildMember(ZipMembers[i])
           ticker == OpenMember(ZipMembers[i], latest_zip[1].dated,
                                ticker_to_cik_mapping, cik_to_ticker_mapping).value
       IN  /\ IF r.ok
              THEN /\ task_pc' = [task_pc EXCEPT ![i] = "done"]
                   /\ parse_log' = parse_log \cup {<<parse_run, i, ResultOf(r)>>}
              ELSE WorkerFails(i, r)
           /\ pkl_files' = IF r.ok \/ r.msg = "truncated"
                           THEN pkl_files \cup {ticker} ELSE pkl_files
    /\ UNCHANGED <<latest_zip, parse_run, pool_size, cpu_count>>
    /\ UNCHANGED <<clientVars, resolveVars, netVars, aggVars, dlVars, limVars, sessVars,
                   trVars, batchVars>>

\* number_of_cores: the default, or the caller's count
PoolSizes == { <<>>, <<0>>, <<1>>, <<2>> }

HostCpus == {6, 8}

\* the zips with a date in their name, and those without one (of one member)
LatestZips ==
    { [dated |-> TRUE, members |-> m] :
        m \in UNION {[1..k -> ArchiveMembers] : k \in 1..MaxMembers} }
    \cup { [dated |-> FALSE, members |-> <<m>>] : m \in ArchiveMembers }

InitParse ==
    /\ InitClient(DefaultDirectory)
    /\ resolved = <<>>
    /\ IdleCalls
    /\ IdleNet
    /\ IdleAgg
    /\ IdleDl
    /\ IdleLim
    /\ IdleSession
    /\ IdleTransport
    /\ IdleBatch
    /\ \E z \in LatestZips : latest_zip = <<z>>
    /\ pkl_files \in SUBSET {DictGet(cik_to_ticker_mapping, CompanyCik)}
    /\ parse_run = 0
    /\ cpu_count \in HostCpus
    /\ pool_size = 0
    /\ task_pc = <<>>
    /\ parse_log = {}

Parse == parse_run < MaxRuns /\ \E n \in PoolSizes : ParseAll(n)

Work == \E i \in 1..MaxMembers + 1 : WorkerOpen(i) \/ WorkerWrite(i)

NextParse == Parse \/ Work

SpecParse == InitParse /\ [][NextParse]_vars

\* the results that put or leave a file at the output path
WriteResults == { "written", "OSError: truncated" }

\* C20: a run of parse_all_facts_in_latest_zip after the first, on the same
\* archive and the output directory the run before left, writes nothing:
\* each member's worker either finds its output path and returns, or fails
\* exactly as it failed in the run before, without a write.
C20_RerunWritesNothing ==
    \A e \in parse_log :
        e[1] >= 2 =>
            \/ e[3] = "exists"
            \/ /\ e[3] \notin WriteResults
               /\ <<e[1] - 1, e[2], e[3]>> \in parse_log

\* a second run over, in which one member was found written and another
\* failed as before
C20_Witness ==
    /\ parse_run = 2
    /\ \A i \in 1..Len(task_pc) : TaskEnded(i)
    /\ \E e \in parse_log : e[1] = 2 /\ e[3] = "exists" /\ <<1, e[2], "written">> \in parse_log
    /\ \E e \in parse_log : e[1] = 2 /\ e[3] # "exists"


\* a member whose document cannot be processed: malformed JSON, no
\* identifier, an identifier the mapping does not know, or no facts
Unprocessable(member) ==
    \/ member.doc \in {"malformed", "no cik", "no facts"}
    \/ ~validate_and_return_cik(member.cik, ticker_to_cik_mapping).ok

RunOver == parse_run >= 1 /\ pool_size >= 1 /\ \A i \in 1..Len(task_pc) : TaskEnded(i)

\* C21: a member whose document cannot be processed is skipped: its worker
\* writes no output file and no exception leaves it, and when the run is
\* over every .json member of the archive has been through a worker.
C21_BadMemberSkipped ==
    /\ \A i \in 1..Len(task_pc) : task_pc[i] # "raised"
    /\ \A e \in parse_log : Unprocessable(ZipMembers[e[2]]) => e[3] \notin WriteResults
    /\ RunOver =>
          \A i \in 1..Len(ZipMembers) :
              ZipMembers[i].filename = "json" => \E e \in parse_log : e[1] = parse_run /\ e[2] = i

\* a run is over in which the first member could not be processed and the
\* second was written
C21_Witness ==
    /\ RunOver
    /\ Len(ZipMembers) = 2
    /\ Unprocessable(ZipMembers[1])
    /\ \E e \in parse_log : e[1] = 1 /\ e[2] = 1 /\ e[3] \notin WriteResults \cup {"exists"}
    /\ <<1, 2, "written">> \in parse_log


\* the identifier member i resolves to and the ticker of its output path
MemberCik(i) == validate_and_return_cik(ZipMembers[i].cik, ticker_to_cik_mapping).value
MemberPath(i) ==
    OpenMember(ZipMembers[i], latest_zip[1].dated,
               ticker_to_cik_mapping, cik_to_ticker_mapping).value

\* members i and j, distinct, both wrote the same output file in run n
BothWrote(n, i, j) ==
    /\ i # j
    /\ \E e \in parse_log : e[1] = n /\ e[2] = i /\ e[3] \in WriteResults
    /\ \E e \in parse_log : e[1] = n /\ e[2] = j /\ e[3] \in WriteResults
    /\ MemberPath(i) = MemberPath(j)

C26_PoolSizeBounded ==
    /\ [](parse_run >= 1 => (1 <= pool_size /\ pool_size <= cpu_count - SafetyMargin))
    /\ [][parse_run' = parse_run => pool_size' = pool_size]_vars


-----------------------------------------------------------------------------
(***************************************************************************)
(* SpecToDownload: get_to_download called on a canonical identifier, an    *)
(* accession number and the name of a primary document.                    *)
(***************************************************************************)
\* the identifiers, as validate_and_return_cik returns them
CikNumbers == { 1, 7, 10, 12, 100, 120, 1020, 1000000000, 1234567890 }
CanonicalCiks == { Zfill(IntToStr(n), CIK_LENGTH) : n \in CikNumbers }

AccessionNumbers ==
    { <<"1", "-", "2", "-", "3">>, <<"0", "1", "-", "2", "3">>, <<"1", "2", "3">>,
      <<"1", "-", "-", "2">> }

PrimaryDocs ==
    { <<"a", ".", "h", "t", "m">>,       <<"a", ".", "h", "t", "m", "l">>,
      <<"a", ".", "t", "x", "t">>,       <<"a", ".", "x", "m", "l">>,
      <<"a">>,                           <<"a", ".", "b", ".", "h", "t", "m">>,
      <<".", "h", "t", "m">>,            <<"d", "/", "a", ".", "h", "t", "m">>,
      <<"a", ".", "x", "h", "t", "m", "l">>, <<"a", ".", "h", "t", "m", "x">>,
      <<"h", "t", "m", ".", "p", "d", "f">> }

GetToDownload(cik, acc_num, doc) ==
    /\ form_to_download = <<>>
    /\ form_to_download' = <<[cik |-> cik, acc_num |-> acc_num, doc |-> doc,
                              out |-> get_to_download(cik, acc_num, Form4, doc)]>>
    /\ UNCHANGED <<resolved, fact_tables, submissions_frame, feed_loop>>
    /\ UNCHANGED <<clientVars, limVars, serviceVars, netVars, aggVars, dlVars>>

InitToDownload ==
    /\ InitClient(DefaultDirectory)
    /\ resolved = <<>>
    /\ IdleCalls
    /\ IdleNet
    /\ IdleAgg
    /\ IdleDl
    /\ IdleService
    /\ IdleLim

NextToDownload ==
    \E cik \in CanonicalCiks, acc_num \in AccessionNumbers, doc \in PrimaryDocs :
        GetToDownload(cik, acc_num, doc)

SpecToDownload == InitToDownload /\ [][NextToDownload]_vars

\* int(s) of a string of digits
RECURSIVE StrToInt(_)
StrToInt(s) ==
    IF s = <<>> THEN 0
    ELSE StrToInt(SubSeq(s, 1, Len(s) - 1)) * 10
         + (CHOOSE d \in 0..9 : DigitChar(d) = s[Len(s)])

\* the pieces of uri between its slashes
RECURSIVE Segments(_)
Segments(uri) ==
    IF \A i \in 1..Len(uri) : uri[i] # "/" THEN <<uri>>
    ELSE LET at == CHOOSE i \in 1..Len(uri) :
                       uri[i] = "/" /\ \A j \in 1..(i - 1) : uri[j] # "/"
         IN  <<SubSeq(uri, 1, at - 1)>> \o Segments(SubSeq(uri, at + 1, Len(uri)))

\* the segments of URL_FILING that hold the identifier and the accession number
CikSegment(uri) == Segments(uri)[Len(Segments(URL_FILING(<<>>, <<>>, <<>>))) - 2]
AccSegment(uri) == Segments(uri)[Len(Segments(URL_FILING(<<>>, <<>>, <<>>))) - 1]

\* C27: in both URIs get_to_download builds, the identifier segment is the
\* canonical identifier without its leading zeros, so it has the numeric
\* value of the identifier, trailing zeros included; the accession segment
\* is the accession number with every dash removed.
C27_OnlyLeadingZerosRemoved ==
    \A n \in 1..Len(form_to_download) :
        LET call == form_to_download[n]
        IN  \A uri \in {call.out.raw_filing_uri, call.out.primary_doc_uri} :
                /\ CikSegment(uri) = LStrip(call.cik, {"0"})
                /\ StrToInt(CikSegment(uri)) = StrToInt(call.cik)
                /\ AccSegment(uri) = Without(call.acc_num, "-")

\* C28: the detail-file suffix is ".html" when the suffix of the primary
\* document is ".htm", and the document's own suffix in every other case,
\* ".html" included.
C28_OnlyHtmBecomesHtml ==
    \A n \in 1..Len(form_to_download) :
        LET call   == form_to_download[n]
            suffix == PathSuffix(call.doc)
        IN  call.out.details_doc_suffix =
                IF suffix = <<".", "h", "t", "m">> THEN <<".", "h", "t", "m", "l">> ELSE suffix

-----------------------------------------------------------------------------
(***************************************************************************)
(* EdgarClient.py: the two builders of a company's fact table.             *)
(*                                                                         *)
(* A fact document lists its facts in the iteration order of the nested    *)
(* dicts data['facts'][taxonomy][tag]['units'][unit]; an event row is a    *)
(* dict field -> value.  A table is a pandas DataFrame: a row index and a  *)
(* sequence of columns, each with its key (a tuple of the MultiIndex) and  *)
(* its cells; NaN marks a cell without a value.                            *)
(***************************************************************************)
ALLOWED_DATA_COLUMNS ==
    <<"start", "end", "val", "accn", "fy", "fp", "form", "filed", "frame">>

NaN == "nan"

MaxEvents == 2

\* an event row that has every field but those of absent
EventRow(absent) ==
    SelectSeq([i \in 1..Len(ALLOWED_DATA_COLUMNS) |-> <<ALLOWED_DATA_COLUMNS[i], "1">>],
              LAMBDA kv : kv[1] \notin absent)

RowShapes == { {}, {"start"}, {"frame"}, {"start", "frame"}, {"val"} }

EventRows == { EventRow(absent) : absent \in RowShapes }

FactKeys ==
    { <<"dei", "SharesOutstanding", "shares">>,
      <<"us-gaap", "Assets", "USD">>,
      <<"us-gaap", "Cash", "USD">>,
      <<"us-gaap", "Cash", "EUR">> }

\* the orders in which a document lists none, one or two facts
FactKeySeqs ==
    {<<>>} \cup { <<k>> : k \in FactKeys }
           \cup { pair \in FactKeys \X FactKeys : pair[1] # pair[2] }

RECURSIVE SumLen(_)
SumLen(lists) ==
    IF lists = <<>> THEN 0
    ELSE Len(lists[1]) + SumLen(SubSeq(lists, 2, Len(lists)))

\* the event lists of n units, MaxEvents events in all at most, none empty
EventLists(n) ==
    LET lists == UNION { [1..m -> EventRows] : m \in 1..(MaxEvents - n + 1) }
    IN  { rows \in [1..n -> lists] : SumLen(rows) <= MaxEvents }

Documents ==
    UNION { { [i \in 1..Len(keys) |->
                  [taxonomy_name |-> keys[i][1], tag_name |-> keys[i][2],
                   unit |-> keys[i][3], events |-> rows[i]]]
              : rows \in EventLists(Len(keys)) }
            : keys \in FactKeySeqs }

\* pd.DataFrame(list of dicts): the columns are the keys of the rows in the
\* order of their first appearance, a row without the key has NaN there
RECURSIVE FirstSeen(_)
FirstSeen(rows) ==
    IF rows = <<>> THEN <<>>
    ELSE LET before == FirstSeen(SubSeq(rows, 1, Len(rows) - 1))
             last   == rows[Len(rows)]
             fields == [i \in 1..Len(last) |-> last[i][1]]
         IN  before \o SelectSeq(fields, LAMBDA f : f \notin Range(before))

DataFrame(rows) ==
    LET fields == FirstSeen(rows)
    IN  [index   |-> [r \in 1..Len(rows) |-> r - 1],
         columns |-> [c \in 1..Len(fields) |->
                         [key   |-> <<fields[c]>>,
                          cells |-> [r \in 1..Len(rows) |->
                                        IF fields[c] \in DictKeys(rows[r])
                                        THEN DictGet(rows[r], fields[c])
                                        ELSE NaN]]]]

\* events_df[column] = np.nan for the columns of missing, in that order
RECURSIVE Backfilled(_, _)
Backfilled(df, missing) ==
    IF missing = <<>> THEN df
    ELSE Backfilled([df EXCEPT !.columns =
                        Append(@, [key   |-> <<missing[1]>>,
                                   cells |-> [r \in 1..Len(df.index) |-> NaN]])],
                    SubSeq(missing, 2, Len(missing)))

\* events_df.columns = pd.MultiIndex.from_product([[a], [b], [c], events_df.columns])
FromProduct(df, a, b, c) ==
    [df EXCEPT !.columns =
        [i \in 1..Len(df.columns) |->
            [df.columns[i] EXCEPT !.key = <<a, b, c>> \o df.columns[i].key]]]

\* pd.concat(dataframes, axis=1) of frames with a RangeIndex: the rows are
\* the union of the indexes, a frame without the row has NaN in its columns
RECURSIVE MaxRows(_)
MaxRows(dataframes) ==
    IF dataframes = <<>> THEN 0
    ELSE Max(Len(dataframes[1].index), MaxRows(SubSeq(dataframes, 2, Len(dataframes))))

RECURSIVE ColumnsSideBySide(_, _)
ColumnsSideBySide(dataframes, rows) ==
    IF dataframes = <<>> THEN <<>>
    ELSE LET df == dataframes[1]
         IN  [i \in 1..Len(df.columns) |->
                 [key   |-> df.columns[i].key,
                  cells |-> [r \in 1..rows |->
                                IF r <= Len(df.index) THEN df.columns[i].cells[r]
                                ELSE NaN]]]
             \o ColumnsSideBySide(SubSeq(dataframes, 2, Len(dataframes)), rows)

Concat(dataframes) ==
    IF dataframes = <<>> THEN Raise("ValueError", "No objects to concatenate")
    ELSE Ok([index   |-> [r \in 1..MaxRows(dataframes) |-> r - 1],
             columns |-> ColumnsSideBySide(dataframes, MaxRows(dataframes))])

\* DataFrame.sort_index(): axis 0, the rows in the order of their labels;
\* the columns stay where they are
SortIndex(df) ==
    LET place(r) == 1 + Cardinality({ q \in 1..Len(df.index) : df.index[q] < df.index[r] })
        from(p)  == CHOOSE r \in 1..Len(df.index) : place(r) = p
    IN  [index   |-> [p \in 1..Len(df.index) |-> df.index[from(p)]],
         columns |-> [c \in 1..Len(df.columns) |->
                         [df.columns[c] EXCEPT !.cells =
                             [p \in 1..Len(df.index) |-> df.columns[c].cells[from(p)]]]]]

\* set(ALLOWED_DATA_COLUMNS) - set(events_df.columns)
MissingColumns(events_df) ==
    { f \in Range(ALLOWED_DATA_COLUMNS) :
        \A c \in 1..Len(events_df.columns) : events_df.columns[c].key # <<f>> }

\* the orders in which iterating over the set missing can give its members
SetOrders(missing) ==
    { order \in [1..Cardinality(missing) -> missing] : Range(order) = missing }

\* parse_facts_json, lines 518-554; set_order gives, for each set of missing
\* columns, the order in which the for loop of line 542 meets them
RECURSIVE FactFrames(_, _)
FactFrames(facts, set_order) ==
    IF facts = <<>> THEN Ok(<<>>)
    ELSE LET fact      == facts[1]
             events_df == DataFrame(fact.events)
             missing   == MissingColumns(events_df)
             filled    == Backfilled(events_df, set_order[missing])
             rest      == FactFrames(SubSeq(facts, 2, Len(facts)), set_order)
         IN  IF ~(missing \subseteq {"start", "frame"})
             THEN Raise("SystemExit", "Columns are missing")
             ELSE IF ~rest.ok THEN rest
             ELSE Ok(<<FromProduct(filled, fact.taxonomy_name, fact.tag_name, fact.unit)>>
                     \o rest.value)

parse_facts_json(json_dict, set_order) ==
    LET dataframes == FactFrames(json_dict, set_order)
    IN  IF ~dataframes.ok THEN dataframes
        ELSE LET multi_df == Concat(dataframes.value)
             IN  IF ~multi_df.ok THEN multi_df ELSE Ok(SortIndex(multi_df.value))

\* _parse_open_json, lines 481-503: the table it pickles, or the exception
\* its except clause logs
ParseOpenJsonFrames(facts) ==
    [i \in 1..Len(facts) |->
        FromProduct(DataFrame(facts[i].events),
                    facts[i].taxonomy_name, facts[i].unit, facts[i].tag_name)]

parse_open_json_table(data) == Concat(ParseOpenJsonFrames(data))

\* what iterating over each set of missing columns may give (the order of a
\* set of strings follows their hashes, which differ from process to process)
SetOrderings ==
    LET sets == SUBSET {"start", "frame"}
    IN  { f \in [sets -> UNION { SetOrders(m) : m \in sets }] :
            \A m \in sets : f[m] \in SetOrders(m) }

\* the documents that hold the facts of doc, in every order
Reorderings(doc) ==
    { [i \in 1..Len(doc) |-> doc[p[i]]] : p \in Permutations(1..Len(doc)) }

\* the document of the next call: any document first, then the facts of the
\* first document again, in any order
NextDocuments ==
    IF fact_tables = <<>> THEN Documents ELSE Reorderings(fact_tables[1].doc)

ParseFactsJson ==
    /\ Len(fact_tables) <= 1
    /\ \E json_dict \in NextDocuments, set_order \in SetOrderings :
           fact_tables' = Append(fact_tables,
                                 [path |-> "parse_facts_json", doc |-> json_dict,
                                  out  |-> parse_facts_json(json_dict, set_order)])
    /\ UNCHANGED <<resolved, form_to_download, submissions_frame, feed_loop>>
    /\ UNCHANGED <<clientVars, limVars, serviceVars, netVars, aggVars, dlVars>>

ParseOpenJson ==
    /\ Len(fact_tables) <= 1
    /\ \E data \in NextDocuments :
           fact_tables' = Append(fact_tables,
                                 [path |-> "_parse_open_json", doc |-> data,
                                  out  |-> parse_open_json_table(data)])
    /\ UNCHANGED <<resolved, form_to_download, submissions_frame, feed_loop>>
    /\ UNCHANGED <<clientVars, limVars, serviceVars, netVars, aggVars, dlVars>>

InitNormalize ==
    /\ InitClient(DefaultDirectory)
    /\ resolved = <<>>
    /\ IdleCalls
    /\ IdleNet
    /\ IdleAgg
    /\ IdleDl
    /\ IdleService
    /\ IdleLim

NextNormalize == ParseFactsJson \/ ParseOpenJson

SpecNormalize == InitNormalize /\ [][NextNormalize]_vars

\* the fields of ALLOWED_DATA_COLUMNS an event row has no value for
Lacks(row) == Range(ALLOWED_DATA_COLUMNS) \ DictKeys(row)

AllEvents(doc) == UNION { Range(doc[i].events) : i \in 1..Len(doc) }

\* the cells of the column of table with this key, <<>> without the column
CellsAt(table, key) ==
    IF \E c \in 1..Len(table.columns) : table.columns[c].key = key
    THEN LET c == CHOOSE d \in 1..Len(table.columns) : table.columns[d].key = key
         IN  table.columns[c].cells
    ELSE <<>>

\* every event of fact stands in table under (taxonomy, tag, unit, field),
\* with NaN in the fields the event has no value for
FactNormalized(table, fact) ==
    \A f \in Range(ALLOWED_DATA_COLUMNS) :
        LET cells == CellsAt(table, <<fact.taxonomy_name, fact.tag_name, fact.unit, f>>)
        IN  /\ Len(cells) >= Len(fact.events)
            /\ \A r \in 1..Len(fact.events) :
                   cells[r] = IF f \in Lacks(fact.events[r]) THEN NaN
                              ELSE DictGet(fact.events[r], f)

\* C23: parse_facts_json returns the table of a document whose event rows
\* lack nothing but start and frame, those fields holding NaN; when some
\* event row lacks another column, it ends in the fatal exit and returns no
\* table, whatever the other rows of the unit hold.
C23_CoreColumnMissingHalts ==
    \A n \in 1..Len(fact_tables) :
        LET call == fact_tables[n]
        IN  call.path = "parse_facts_json" /\ call.doc # <<>> =>
                IF \A row \in AllEvents(call.doc) : Lacks(row) \subseteq {"start", "frame"}
                THEN /\ call.out.ok
                     /\ \A i \in 1..Len(call.doc) : FactNormalized(call.out.value, call.doc[i])
                ELSE /\ ~call.out.ok
                     /\ call.out.exc = "SystemExit"

\* the events a lookup by (a, b, c) finds in table: for each row, the
\* fields with a value in the columns whose key starts with (a, b, c)
Lookup(table, a, b, c) ==
    LET event(r) == { <<table.columns[i].key[4], table.columns[i].cells[r]>> :
                        i \in { j \in 1..Len(table.columns) :
                                  /\ SubSeq(table.columns[j].key, 1, 3) = <<a, b, c>>
                                  /\ table.columns[j].cells[r] # NaN } }
    IN  SelectSeq([r \in 1..Len(table.index) |-> event(r)], LAMBDA e : e # {})

EventsOf(fact) == [r \in 1..Len(fact.events) |-> Range(fact.events[r])]

KeyedByTaxonomyTagUnit(table, doc) ==
    \A c \in 1..Len(table.columns) :
        \E i \in 1..Len(doc) :
            SubSeq(table.columns[c].key, 1, 3)
                = <<doc[i].taxonomy_name, doc[i].tag_name, doc[i].unit>>

\* C29: for one fact document, the table of _parse_open_json and the table
\* of parse_facts_json both key every column by (taxonomy, tag, unit,
\* field), and a lookup by (taxonomy, tag, unit) finds the events of that
\* fact in either table.
C29_BothPathsSameKeys ==
    \A n \in 1..Len(fact_tables), m \in 1..Len(fact_tables) :
        LET single == fact_tables[n]
            bulk   == fact_tables[m]
        IN  /\ single.path = "parse_facts_json"
            /\ bulk.path = "_parse_open_json"
            /\ single.doc = bulk.doc
            /\ single.out.ok
            /\ bulk.out.ok
            => /\ KeyedByTaxonomyTagUnit(single.out.value, single.doc)
               /\ KeyedByTaxonomyTagUnit(bulk.out.value, bulk.doc)
               /\ \A i \in 1..Len(single.doc) :
                      LET fact == single.doc[i]
                      IN  /\ Lookup(single.out.value, fact.taxonomy_name,
                                    fact.tag_name, fact.unit) = EventsOf(fact)
                          /\ Lookup(bulk.out.value, fact.taxonomy_name,
                                    fact.tag_name, fact.unit) = EventsOf(fact)

\* C30: two documents that hold the same facts, listed in whatever order,
\* give the same table on the same path, parse_facts_json or
\* _parse_open_json.
C30_SameFactsSameTable ==
    \A n \in 1..Len(fact_tables), m \in 1..Len(fact_tables) :
        /\ fact_tables[n].path = fact_tables[m].path
        /\ Range(fact_tables[n].doc) = Range(fact_tables[m].doc)
        /\ fact_tables[n].out.ok
        /\ fact_tables[m].out.ok
        => fact_tables[n].out.value = fact_tables[m].out.value

-----------------------------------------------------------------------------
(***************************************************************************)
(* EdgarClient.get_submissions_by_company and _utils.merge_submission_dicts *)
(* One action per request.  submissions_frame holds the arguments and the  *)
(* locals of the call:                                                     *)
(*   pc = "pages"   in the for loop over paginated_submissions, at place   *)
(*                  submissions_frame[1].at                                *)
(***************************************************************************)
\* chain.from_iterable(d[k] for d in to_merge)
RECURSIVE ChainKey(_, _)
ChainKey(to_merge, k) ==
    IF to_merge = <<>> THEN <<>>
    ELSE to_merge[1][k] \o ChainKey(SubSeq(to_merge, 2, Len(to_merge)), k)

\* the merge that keeps the first dict alone
merge_submission_dicts_first_only(to_merge) == Ok(to_merge[1])

merge_submission_dicts(to_merge) ==
    IF \E k \in DOMAIN to_merge[1] : \E i \in 1..Len(to_merge) : k \notin DOMAIN to_merge[i]
    THEN Raise("KeyError", "key")
    ELSE Ok([k \in DOMAIN to_merge[1] |-> ChainKey(to_merge, k)])

\* the call up to the response of its first request
get_submissions_by_company(ticker_or_cik, handle_pagination) ==
    /\ pc = "idle"
    /\ LET cik == validate_and_return_cik(ticker_or_cik, ticker_to_cik_mapping)
       IN  IF ~cik.ok
           THEN /\ RaiseOut(cik.exc, cik.msg)
                /\ submissions_frame' = <<[ticker_or_cik |-> ticker_or_cik,
                                           handle_pagination |-> handle_pagination,
                                           submissions |-> <<>>, to_merge |-> <<>>, at |-> 0]>>
                /\ UNCHANGED requested
           ELSE /\ requested' = Append(requested, URL_SUBMISSIONS(cik.value))
                /\ \/ /\ RaiseOut("EdgarAPIError", "request failed")
                      /\ submissions_frame' = <<[ticker_or_cik |-> ticker_or_cik,
                                                 handle_pagination |-> handle_pagination,
                                                 submissions |-> <<>>, to_merge |-> <<>>,
                                                 at |-> 0]>>
                   \/ LET submissions == Serve(archive, cik.value, URL_SUBMISSIONS(cik.value))
                          paginated_submissions == submissions.filings.files
                      IN  IF handle_pagination /\ paginated_submissions # <<>>
                          THEN /\ pc' = "pages"
                               /\ submissions_frame' =
                                      <<[ticker_or_cik |-> ticker_or_cik,
                                         handle_pagination |-> handle_pagination,
                                         submissions |-> <<submissions>>,
                                         to_merge |-> <<submissions.filings.recent>>,
                                         at |-> 1]>>
                               /\ UNCHANGED outcome
                          ELSE /\ pc' = "done"
                               /\ outcome' = <<Ok(submissions)>>
                               /\ submissions_frame' =
                                      <<[ticker_or_cik |-> ticker_or_cik,
                                         handle_pagination |-> handle_pagination,
                                         submissions |-> <<submissions>>,
                                         to_merge |-> <<>>, at |-> 0]>>
    /\ UNCHANGED <<clientVars, limVars, serviceVars, dlVars, archive>>
    /\ UNCHANGED <<resolved, form_to_download, fact_tables, feed_loop>>
    /\ UNCHANGED <<caller, meta, filings_to_download, fetched_count, submissions_uri,
                   additional_submissions, filings_json, zip_pos>>

\* one turn of `for submission in paginated_submissions`
GetContinuationPage ==
    /\ pc = "pages"
    /\ LET frame == submissions_frame[1]
           paginated_submissions == frame.submissions[1].filings.files
       IN  /\ frame.at <= Len(paginated_submissions)
           /\ LET filename     == paginated_submissions[frame.at].name
                  api_endpoint == URL_PAGINATED_SUBMISSIONS(filename)
              IN  /\ requested' = Append(requested, api_endpoint)
                  /\ \/ /\ RaiseOut("EdgarAPIError", "request failed")
                        /\ UNCHANGED submissions_frame
                     \/ /\ submissions_frame' =
                               <<[frame EXCEPT
                                     !.to_merge = Append(@, Serve(archive, <<>>, api_endpoint)),
                                     !.at = @ + 1]>>
                        /\ UNCHANGED <<pc, outcome>>
    /\ UNCHANGED <<clientVars, limVars, serviceVars, dlVars, archive>>
    /\ UNCHANGED <<resolved, form_to_download, fact_tables, feed_loop>>
    /\ UNCHANGED <<caller, meta, filings_to_download, fetched_count, submissions_uri,
                   additional_submissions, filings_json, zip_pos>>

\* after the loop: the merge, the two assignments and the return
MergeAndReturn ==
    /\ pc = "pages"
    /\ LET frame  == submissions_frame[1]
           merged == merge_submission_dicts(frame.to_merge)
       IN  /\ frame.at > Len(frame.submissions[1].filings.files)
           /\ IF ~merged.ok
              THEN RaiseOut(merged.exc, merged.msg)
              ELSE /\ pc' = "done"
                   /\ outcome' = <<Ok([filings |-> [recent |-> merged.value, files |-> <<>>]])>>
    /\ UNCHANGED <<clientVars, limVars, serviceVars, dlVars, netVars>>
    /\ UNCHANGED resolveVars
    /\ UNCHANGED <<caller, meta, filings_to_download, fetched_count, submissions_uri,
                   additional_submissions, filings_json, zip_pos>>

\* page p of archive a without the array of key
Keyless(a, p, key) ==
    [a EXCEPT !.pages[p] = [k \in (DOMAIN a.pages[p]) \ {key} |-> a.pages[p][k]]]

\* the archives of the walk, and those with a continuation page that lacks
\* an array of the recent batch
SubmissionArchives ==
    Archives \cup
    { Keyless(a, Len(a.files), "primaryDocument") : a \in {b \in WellFormedArchives : b.files # <<>>} }

InitSubmissions ==
    /\ InitClient(DefaultDirectory)
    /\ resolved = <<>>
    /\ IdleCalls
    /\ archive \in SubmissionArchives
    /\ requested = <<>>
    /\ IdleAgg
    /\ IdleDl
    /\ IdleService
    /\ IdleLim

GetSubmissions ==
    \E ticker_or_cik \in TickerArgs, handle_pagination \in BOOLEAN :
        get_submissions_by_company(ticker_or_cik, handle_pagination)

NextSubmissions == GetSubmissions \/ GetContinuationPage \/ MergeAndReturn

SpecSubmissions == InitSubmissions /\ [][NextSubmissions]_vars

\* the array of key in the recent batch followed by those of the first n
\* continuation pages, in listed order
RECURSIVE ArraysInOrder(_, _, _)
ArraysInOrder(a, key, n) ==
    IF n = 0 THEN a.recent[key] ELSE ArraysInOrder(a, key, n - 1) \o a.pages[n][key]

\* the URLs of the continuation pages, in listed order
ListedPages(a) == [i \in 1..Len(a.files) |-> URL_PAGINATED_SUBMISSIONS(a.files[i].name)]

\* C33: when get_submissions_by_company returns with handle_pagination set,
\* it has requested the first page and then each listed continuation page
\* once, in listed order, and the response has, under every key of the
\* recent batch, that key's arrays of the recent batch and of the pages in
\* listed order, and an empty files list (so every page had those keys);
\* without handle_pagination it has made one request and returns the first
\* response as it came.
C33_PagesMergedInOrder ==
    (submissions_frame # <<>> /\ pc = "done") =>
        LET frame == submissions_frame[1]
            cik   == validate_and_return_cik(frame.ticker_or_cik, ticker_to_cik_mapping).value
            out   == outcome[1].value
        IN  IF frame.handle_pagination
            THEN /\ requested = <<URL_SUBMISSIONS(cik)>> \o ListedPages(archive)
                 /\ \A i \in 1..Len(archive.files) :
                        DOMAIN archive.recent \subseteq DOMAIN archive.pages[i]
                 /\ DOMAIN out.filings.recent = DOMAIN archive.recent
                 /\ \A key \in DOMAIN archive.recent :
                        out.filings.recent[key] = ArraysInOrder(archive, key, Len(archive.files))
                 /\ out.filings.files = <<>>
            ELSE /\ requested = <<URL_SUBMISSIONS(cik)>>
                 /\ out = [filings |-> [recent |-> archive.recent, files |-> archive.files]]

\* a call with handle_pagination returned the arrays of the recent batch and
\* of two continuation pages, none of them empty
C33_Witness ==
    /\ submissions_frame # <<>>
    /\ pc = "done"
    /\ submissions_frame[1].handle_pagination
    /\ Len(archive.files) = 2
    /\ Len(requested) = 3
    /\ Len(outcome[1].value.filings.recent.form) >= 2
    /\ archive.pages[2].form # <<>>
    /\ archive.recent.form # <<>>

-----------------------------------------------------------------------------
(***************************************************************************)
(* EdgarClient.subscribe_to_rss_feed and subscribe_rss_feeds: the polling  *)
(* loops.  feed_loop holds the arguments and locals of the subscription:   *)
(*   feed_urls     the feeds polled (one for subscribe_to_rss_feed)        *)
(*   last_entries  per feed, the id of the last entry seen, <<>> for None  *)
(*   at, polls     the feed the loop is at, the turns of `while True` done *)
(* and, of the world around it,                                            *)
(*   published     per feed, how many entries it has published; entry n of *)
(*                 a feed has id n, and the feed lists its newest          *)
(*                 FeedCount entries, newest first                         *)
(*   seen_new      every entry a poll put in new_entries, <<feed, id, poll>>*)
(*   delivered     every entry callback_func was called with, in order     *)
(***************************************************************************)
FeedCount    == 2
MaxEntries   == 3
MaxFeedPolls == 3

\* feed.entries of a feed that has published n entries
FeedEntries(n) == [i \in 1..Min(FeedCount, n) |-> n - i + 1]

\* the for loop that collects new_entries: the entries ahead of the one
\* whose id is that of last_entry, all of them when there is none
RECURSIVE NewEntries(_, _)
NewEntries(entries, last_entry) ==
    IF entries = <<>> THEN <<>>
    ELSE IF last_entry # <<>> /\ entries[1] = last_entry[1] THEN <<>>
    ELSE <<entries[1]>> \o NewEntries(SubSeq(entries, 2, Len(entries)), last_entry)

FeedUrlLists ==
    [subscribe_to_rss_feed |-> { <<"getcurrent">> },
     subscribe_rss_feeds   |-> { <<"litreleases">>, <<"litreleases", "admin">> }]

\* the call up to the first turn of `while True`
Subscribe(op, feed_urls) ==
    /\ feed_loop = <<>>
    /\ feed_loop' = <<[op           |-> op,
                       feed_urls    |-> feed_urls,
                       last_entries |-> [i \in 1..Len(feed_urls) |-> <<>>],
                       at           |-> 1,
                       polls        |-> 0,
                       published    |-> [i \in 1..Len(feed_urls) |-> 0],
                       seen_new     |-> <<>>,
                       delivered    |-> <<>>]>>
    /\ UNCHANGED <<resolved, form_to_download, fact_tables, submissions_frame>>
    /\ UNCHANGED <<clientVars, limVars, serviceVars, netVars, aggVars, dlVars>>

\* a feed publishes its next entry
Publish ==
    /\ feed_loop # <<>>
    /\ \E i \in 1..Len(feed_loop[1].feed_urls) :
           /\ feed_loop[1].published[i] < MaxEntries
           /\ feed_loop' = <<[feed_loop[1] EXCEPT !.published[i] = @ + 1]>>
    /\ UNCHANGED <<resolved, form_to_download, fact_tables, submissions_frame>>
    /\ UNCHANGED <<clientVars, limVars, serviceVars, netVars, aggVars, dlVars>>

\* the loop moves on to the next feed, or sleeps and starts its next turn
MovedOn(loop) ==
    IF loop.at < Len(loop.feed_urls)
    THEN [loop EXCEPT !.at = @ + 1]
    ELSE [loop EXCEPT !.at = 1, !.polls = @ + 1]

\* the try block for one feed: the request, the new entries, last_entry and
\* the calls of callback_func; raises_at is the place in new_entries at
\* which callback_func raises, 0 when it raises nowhere
PollFeed(request_fails, raises_at) ==
    /\ feed_loop # <<>>
    /\ feed_loop[1].polls < MaxFeedPolls
    /\ LET loop        == feed_loop[1]
           i           == loop.at
           entries     == FeedEntries(loop.published[i])
           new_entries == NewEntries(entries, loop.last_entries[i])
           called      == IF raises_at = 0 THEN new_entries
                          ELSE SubSeq(new_entries, 1, raises_at)
           stamp(ids)  == [n \in 1..Len(ids) |-> <<i, ids[n], loop.polls>>]
       IN  /\ raises_at <= Len(new_entries)
           /\ request_fails => raises_at = 0
           /\ IF request_fails \/ entries = <<>> \/ new_entries = <<>>
              THEN feed_loop' = <<MovedOn(loop)>>
              ELSE feed_loop' =
                       <<MovedOn([loop EXCEPT
                                    !.last_entries[i] = <<new_entries[1]>>,
                                    !.seen_new  = @ \o stamp(new_entries),
                                    !.delivered = @ \o stamp(called)])>>
    /\ UNCHANGED <<resolved, form_to_download, fact_tables, submissions_frame>>
    /\ UNCHANGED <<clientVars, limVars, serviceVars, netVars, aggVars, dlVars>>

InitFeed ==
    /\ InitClient(DefaultDirectory)
    /\ resolved = <<>>
    /\ IdleCalls
    /\ IdleNet
    /\ IdleAgg
    /\ IdleDl
    /\ IdleService
    /\ IdleLim

SubscribeFeed ==
    \E op \in RssOperations : \E feed_urls \in FeedUrlLists[op] : Subscribe(op, feed_urls)

Poll == \E request_fails \in BOOLEAN, raises_at \in 0..FeedCount : PollFeed(request_fails, raises_at)

NextFeed == SubscribeFeed \/ Publish \/ Poll

SpecFeed == InitFeed /\ [][NextFeed]_vars

\* C34: the entries callback_func was called with are the entries the polls
\* found ahead of the last-seen entry, each once and in the order of the
\* feed, whether or not callback_func raised on an earlier entry of the
\* poll; no entry of a feed is passed on two different polls.
C34_NewEntriesDeliveredOnce ==
    feed_loop # <<>> =>
        /\ feed_loop[1].delivered = feed_loop[1].seen_new
        /\ \A n \in 1..Len(feed_loop[1].delivered), m \in 1..Len(feed_loop[1].delivered) :
               LET d == feed_loop[1].delivered
               IN  (d[n][1] = d[m][1] /\ d[n][2] = d[m][2]) => n = m

====
